---- MODULE Spec2Model ----
(***************************************************************************)
(* Limit order book of Skelectric/coinbase_full_orderbook_scraper.         *)
(*                                                                         *)
(*   avl_tree_py.rs       AVLTree<K>: pointer-linked AVL tree whose values *)
(*                        are OrderStacks                                  *)
(*   orderbook_py.rs      LimitOrderbook over two AVLTree<f64>             *)
(*   orderbook_btree_slab.rs  LimitOrderbook with the outlier guard        *)
(*                                                                         *)
(* A tree node is a heap cell; the tree never holds two nodes with the     *)
(* same key (the BST invariant is checked below), so a cell is named by    *)
(* its key.  A `&mut Link<K>` of the source is a slot: the tree's root     *)
(* field, a node's left or right field, or a local variable.               *)
(***************************************************************************)
EXTENDS Integers, Sequences, FiniteSets, TLC

\* ------------------------------------------------------------------------
\* Bounds
\* ------------------------------------------------------------------------
MaxKey == 7          \* keys of the tree driven directly
MaxExtra == 1        \* orders appended to existing keys of that tree
MaxPrice == 2        \* prices of the order book
MaxUid == 2          \* order uids
MaxOrders == 2       \* orders resting in the book
MaxProcessed == 3    \* calls that go through process
MaxTick == 4         \* prices of the book with the outlier guard, in double ticks
MaxOutliers == 1     \* inserts that book rejects
MaxFifoUid == 3      \* order uids of the book that queues bids
MaxFifoOrders == 3   \* orders resting in that book
MaxShape == 6        \* nodes of the tree shapes is_balanced is applied to

outlier_factor == 2

Keys == 1..MaxKey
Nil == 0

\* ------------------------------------------------------------------------
\* Orders (orderbook_py.rs)
\* ------------------------------------------------------------------------
Uids == 1..MaxUid
Prices == 1..MaxPrice
Sides == {"Bids", "Asks"}
InsertSizes == {1}
UpdateSizes == {0, 2}
SlabUpdateSizes == {0, 1}
Orders == [uid : Uids, side : Sides, price : Prices, size : InsertSizes]
Submits == {"Insert", "Remove", "Update"}

NoOrder == [uid |-> "none"]
DefaultOrder == [uid |-> "default_uid", side |-> "Bids", price |-> 0, size |-> 0]

\* ------------------------------------------------------------------------
\* AVLTree<K> (avl_tree_py.rs)
\* ------------------------------------------------------------------------
AVLTree_new ==
    [root |-> Nil, len |-> 0,
     left |-> [k \in Keys |-> Nil], right |-> [k \in Keys |-> Nil],
     parent |-> [k \in Keys |-> Nil], value |-> [k \in Keys |-> <<>>]]

RootSlot == [kind |-> "root", node |-> Nil]
LeftSlot(n) == [kind |-> "left", node |-> n]
RightSlot(n) == [kind |-> "right", node |-> n]
LocalSlot(v) == [kind |-> "local", node |-> v]

\* read through a &Link: a Nil node index has no fields, as unwrap() of None aborts
Deref(T, s) ==
    CASE s.kind = "root" -> T.root
      [] s.kind = "left" -> T.left[s.node]
      [] s.kind = "right" -> T.right[s.node]
      [] s.kind = "local" -> s.node

\* write through a &mut Link that lives in the tree
Store(T, s, v) ==
    CASE s.kind = "root" -> [T EXCEPT !.root = v]
      [] s.kind = "left" -> [T EXCEPT !.left[s.node] = v]
      [] s.kind = "right" -> [T EXCEPT !.right[s.node] = v]

Node_get_parentage(T, n) ==
    IF T.parent[n] = Nil THEN "Root"
    ELSE CASE n > T.parent[n] -> "Right"
           [] n < T.parent[n] -> "Left"

get_parentage(T, l) ==
    IF l = Nil THEN "Root" ELSE Node_get_parentage(T, l)

is_root(T, l) == T.parent[l] = Nil

which_children_exist(T, n) ==
    CASE T.left[n] = Nil /\ T.right[n] = Nil -> "None"
      [] T.left[n] # Nil /\ T.right[n] = Nil -> "Left"
      [] T.left[n] = Nil /\ T.right[n] # Nil -> "Right"
      [] T.left[n] # Nil /\ T.right[n] # Nil -> "Both"

flip_link(T, l) ==
    LET parent_branch == get_parentage(T, l)
    IN  CASE parent_branch = "Root" -> RootSlot
          [] parent_branch = "Left" -> LeftSlot(T.parent[l])
          [] parent_branch = "Right" -> RightSlot(T.parent[l])

RECURSIVE height(_, _)
height(T, l) ==
    IF l = Nil THEN 0
    ELSE LET right_height == IF T.right[l] # Nil THEN height(T, T.right[l]) ELSE 0
             left_height == IF T.left[l] # Nil THEN height(T, T.left[l]) ELSE 0
         IN  IF left_height > right_height THEN left_height + 1 ELSE right_height + 1

balance_factor(T, link) ==
    LET node == Deref(T, link)
    IN  height(T, T.right[node]) - height(T, T.left[node])

\* the walk with the two comparisons exchanged
RECURSIVE find_walk_swapped(_, _, _, _)
find_walk_swapped(T, key, parent, current) ==
    LET n == Deref(T, current)
    IN  IF n = Nil THEN [found |-> FALSE, parent |-> parent, link_ptr |-> current]
        ELSE IF key < n THEN find_walk_swapped(T, key, n, RightSlot(n))
        ELSE IF key > n THEN find_walk_swapped(T, key, n, LeftSlot(n))
        ELSE [found |-> TRUE, parent |-> parent, link_ptr |-> current]

RECURSIVE find_walk(_, _, _, _)
find_walk(T, key, parent, current) ==
    LET n == Deref(T, current)
    IN  IF n = Nil THEN [found |-> FALSE, parent |-> parent, link_ptr |-> current]
        ELSE IF key > n THEN find_walk(T, key, n, RightSlot(n))
        ELSE IF key < n THEN find_walk(T, key, n, LeftSlot(n))
        ELSE [found |-> TRUE, parent |-> parent, link_ptr |-> current]

find_link_location(T, key) == find_walk(T, key, Nil, RootSlot)

find_link(T, key) == Deref(T, find_link_location(T, key).link_ptr)

\* the rotation without the last step, the parent pointer of the pivot's child
rotate_single_stale_child(T, root_slot, case) ==
    LET near == IF case = "RRCase" THEN "right" ELSE "left"
        far == IF case = "RRCase" THEN "left" ELSE "right"
        root == Deref(T, root_slot)
        pivot == T[near][root]
        branch == Node_get_parentage(T, root)
    IN  CASE pivot # Nil ->
            [t |-> [T EXCEPT !.root = IF branch = "Root" THEN pivot ELSE @,
                             !.left = IF branch = "Left"
                                      THEN [@ EXCEPT ![T.parent[root]] = pivot] ELSE @,
                             !.right = IF branch = "Right"
                                       THEN [@ EXCEPT ![T.parent[root]] = pivot] ELSE @,
                             !.parent[pivot] = T.parent[root],
                             ![far][pivot] = root,
                             !.parent[root] = pivot,
                             ![near][root] = T[far][pivot]],
             top |-> flip_link(T, T.parent[root])]

\* RRCase: the pivot is root.right and gives its left child to root;
\* LLCase: the pivot is root.left and gives its right child to root.
\* The arm takes root out of its parent, pivot out of root and pivot's child
\* out of pivot, then writes, in this order: the parent's child link (or the
\* tree's root) to pivot, pivot.parent, pivot's far link to root, root.parent,
\* root's near link to pivot's child, and that child's parent if there is one.
\* It returns the pointer to the link that holds the parent.
rotate_single(T, root_slot, case) ==
    LET near == IF case = "RRCase" THEN "right" ELSE "left"
        far == IF case = "RRCase" THEN "left" ELSE "right"
        root == Deref(T, root_slot)
        pivot == T[near][root]
        pivot_child == T[far][pivot]
        branch == Node_get_parentage(T, root)
    IN  CASE pivot # Nil ->
            [t |-> [T EXCEPT !.root = IF branch = "Root" THEN pivot ELSE @,
                             !.left = IF branch = "Left"
                                      THEN [@ EXCEPT ![T.parent[root]] = pivot] ELSE @,
                             !.right = IF branch = "Right"
                                       THEN [@ EXCEPT ![T.parent[root]] = pivot] ELSE @,
                             !.parent[pivot] = IF branch = "Root" THEN Nil ELSE T.parent[root],
                             ![far][pivot] = root,
                             !.parent[root] = pivot,
                             ![near][root] = pivot_child,
                             !.parent = IF pivot_child # Nil
                                        THEN [@ EXCEPT ![pivot_child] = root] ELSE @],
             top |-> flip_link(T, T.parent[root])]

\* the second rotation of a double rotation, at the parent pointer the first returned
rotate_outer(first, case) == rotate_single(first.t, first.top, case)

rotate(T, root_slot, case) ==
    CASE case \in {"RRCase", "LLCase"} -> rotate_single(T, root_slot, case)
      [] case = "RLCase" ->
            rotate_outer(rotate_single(T, RightSlot(Deref(T, root_slot)), "LLCase"), "RRCase")
      [] case = "LRCase" ->
            rotate_outer(rotate_single(T, LeftSlot(Deref(T, root_slot)), "RRCase"), "LLCase")

\* balance without the double rotations
balance_single_rotations(T, link) ==
    IF Deref(T, link) = Nil THEN T
    ELSE IF balance_factor(T, link) \in -1..1 THEN T
    ELSE rotate(T, link, IF balance_factor(T, link) > 1 THEN "RRCase" ELSE "LLCase").t

balance(T, link) ==
    IF Deref(T, link) = Nil THEN T
    ELSE LET bf == balance_factor(T, link)
             node == Deref(T, link)
         IN  IF bf \in -1..1 THEN T
             ELSE rotate(T, link,
                         IF bf > 1
                         THEN IF balance_factor(T, RightSlot(node)) < 0
                              THEN "RLCase" ELSE "RRCase"
                         ELSE IF balance_factor(T, LeftSlot(node)) > 0
                              THEN "LRCase" ELSE "LLCase").t

RECURSIVE balance_stack(_, _)
\* the rest of the loop: stop at the root, else go on at the parent's link
balance_parent(T, current) ==
    IF is_root(T, Deref(T, current)) THEN T
    ELSE balance_stack(T, flip_link(T, T.parent[Deref(T, current)]))

balance_stack(T, current) ==
    IF Deref(T, current) = Nil THEN T
    ELSE balance_parent(balance(T, current), current)

\* Node::new followed by the swap into the located empty link
link_new_node(T, location, key, ord) ==
    LET T1 == [T EXCEPT !.value[key] = <<ord>>, !.parent[key] = location.parent,
                        !.left[key] = Nil, !.right[key] = Nil]
    IN  Store(T1, location.link_ptr, key)

\* insert that puts an order for an existing key at the front of the key's stack
AVLTree_insert_pushes_front(T, key, order) ==
    LET location == find_link_location(T, key)
        ord == IF order = NoOrder THEN DefaultOrder ELSE order
    IN  IF ~location.found
        THEN LET T2 == link_new_node(T, location, key, ord)
                 T3 == balance_stack(T2, LocalSlot(location.parent))
             IN  [T3 EXCEPT !.len = @ + 1]
        ELSE LET node == Deref(T, location.link_ptr)
             IN  [T EXCEPT !.value[node] = <<ord>> \o @]

\* insert that counts an order pushed onto an existing key as a new node
AVLTree_insert_counts_append(T, key, order) ==
    LET location == find_link_location(T, key)
        ord == IF order = NoOrder THEN DefaultOrder ELSE order
    IN  IF ~location.found
        THEN LET T2 == link_new_node(T, location, key, ord)
                 T3 == balance_stack(T2, LocalSlot(location.parent))
             IN  [T3 EXCEPT !.len = @ + 1]
        ELSE LET node == Deref(T, location.link_ptr)
             IN  [T EXCEPT !.value[node] = Append(@, ord), !.len = @ + 1]

\* insert that links a new node whether or not the key was found
AVLTree_insert_always_links(T, key, order) ==
    LET location == find_link_location(T, key)
        ord == IF order = NoOrder THEN DefaultOrder ELSE order
    IN  [balance_stack(link_new_node(T, location, key, ord),
                       LocalSlot(location.parent)) EXCEPT !.len = @ + 1]

AVLTree_insert(T, key, order) ==
    LET location == find_link_location(T, key)
        ord == IF order = NoOrder THEN DefaultOrder ELSE order
    IN  IF ~location.found
        THEN LET T2 == link_new_node(T, location, key, ord)
                 T3 == balance_stack(T2, LocalSlot(location.parent))
             IN  [T3 EXCEPT !.len = @ + 1]
        ELSE LET node == Deref(T, location.link_ptr)
             IN  [T EXCEPT !.value[node] = Append(@, ord)]

replace_with_child(T, link, which_child) ==
    LET node == Deref(T, link)
        parent_branch == get_parentage(T, Deref(T, link))
        field == CASE which_child = "Left" -> "left" [] which_child = "Right" -> "right"
        adopted_child == T[field][node]
        T1 == [T EXCEPT ![field][node] = Nil]
        \* pop link out of tree
        removed == Deref(T1, link)
        T2 == Store(T1, link, adopted_child)
        \* update child's parent pointer if it's not None
        T3 == IF Deref(T2, link) # Nil
              THEN IF parent_branch = "Root"
                   THEN [T2 EXCEPT !.parent[Deref(T2, link)] = Nil]
                   ELSE [T2 EXCEPT !.parent[Deref(T2, link)] = T2.parent[node]]
              ELSE T2
    IN  CASE which_children_exist(T, node) # "Both" -> [t |-> T3, removed |-> removed]

RECURSIVE min_walk(_, _)
min_walk(T, minimum) ==
    IF T.left[Deref(T, minimum)] # Nil
    THEN min_walk(T, LeftSlot(Deref(T, minimum)))
    ELSE minimum

\* successor search that stops at the right child
min_under_right_no_walk(T, link) ==
    IF Deref(T, link) # Nil /\ T.right[Deref(T, link)] # Nil
    THEN RightSlot(Deref(T, link))
    ELSE link

min_under_right(T, link) ==
    IF Deref(T, link) # Nil /\ T.right[Deref(T, link)] # Nil
    THEN min_walk(T, RightSlot(Deref(T, link)))
    ELSE link

\* Children::Both, the successor lies deeper than the right child: the
\* successor, already replaced by its right child, adopts the removed node's right child
adopt_right(rc, removed_node_ptr) ==
    [t |-> [rc.t EXCEPT !.right[rc.removed] = rc.t.right[removed_node_ptr],
                        !.parent[rc.t.right[removed_node_ptr]] = rc.removed],
     removed |-> rc.removed]

\* Children::Both: take the successor out of the tree
take_successor(T, removed_node_ptr, successor, deep) ==
    IF deep
    THEN adopt_right(replace_with_child(T, successor, "Right"), removed_node_ptr)
    ELSE [t |-> [T EXCEPT !.right[removed_node_ptr] = Nil],
          removed |-> T.right[removed_node_ptr]]

\* Children::Both: the successor (taken.removed) gets the removed node's left
\* child and takes the removed node's place under parent; balancing starts at
\* the link that holds the successor's old parent
place_successor(taken, removed_node_ptr, parent, branch, deep) ==
    LET Tb == taken.t
        successor_node == taken.removed
        Td == [Tb EXCEPT !.left[successor_node] = Tb.left[removed_node_ptr],
                         !.left[removed_node_ptr] = Nil,
                         !.parent[Tb.left[removed_node_ptr]] = successor_node]
    IN  [t |-> [Td EXCEPT !.root = IF branch = "Root" THEN successor_node ELSE @,
                          !.left = IF branch = "Left"
                                   THEN [@ EXCEPT ![parent] = successor_node] ELSE @,
                          !.right = IF branch = "Right"
                                    THEN [@ EXCEPT ![parent] = successor_node] ELSE @,
                          !.parent[successor_node] = IF branch = "Root" THEN Nil ELSE parent],
         removed_link |-> CASE branch = "Root" -> Td.root
                            [] branch = "Left" -> Td.left[parent]
                            [] branch = "Right" -> Td.right[parent],
         successor_old_parent |-> flip_link(Tb, Tb.parent[successor_node]),
         deep |-> deep]

\* the Children::Both arm: the successor takes the removed node's place
remove_both(T, link_for_removal, parent, branch) ==
    LET removed_node_ptr == Deref(T, link_for_removal)
        successor == min_under_right(T, link_for_removal)
        deep == Deref(T, successor) # T.right[removed_node_ptr]
    IN  place_successor(take_successor(T, removed_node_ptr, successor, deep),
                        removed_node_ptr, parent, branch, deep)

\* the node handed back to the caller, as it is linked when it is returned
BoxedNode(T, n) ==
    [key |-> n, value |-> T.value[n], parent |-> T.parent[n],
     left |-> T.left[n], right |-> T.right[n]]

\* the caller drops the returned Box: the cell is no longer part of the heap
FreeNode(T, n) ==
    [T EXCEPT !.value[n] = <<>>, !.parent[n] = Nil, !.left[n] = Nil, !.right[n] = Nil]

NoNode == [key |-> Nil]

\* the arms None, Left and Right hand no successor's parent on
unlinked(T, removed_link) ==
    [t |-> T, removed_link |-> removed_link,
     successor_old_parent |-> LocalSlot(Nil), deep |-> FALSE]

\* replace_with_child as the arms Left and Right use it
unlink_with_child(rc) == unlinked(rc.t, rc.removed)

\* the match on the children of the node to remove
unlink(T, link_for_removal, parent, branch, children) ==
    CASE children = "None" ->
            unlinked(Store(T, link_for_removal, Nil), Deref(T, link_for_removal))
      [] children \in {"Left", "Right"} ->
            unlink_with_child(replace_with_child(T, link_for_removal, children))
      [] children = "Both" -> remove_both(T, link_for_removal, parent, branch)

\* Box::from_raw of the removed link, len -= 1, Some(removed_node)
remove_result(u, T2, children) ==
    CASE u.removed_link # Nil ->
        [t |-> FreeNode([T2 EXCEPT !.len = @ - 1], u.removed_link),
         removed |-> BoxedNode(T2, u.removed_link),
         rotated |-> T2 # u.t,
         children |-> IF children = "Both"
                      THEN (IF u.deep THEN "BothDeep" ELSE "BothDirect")
                      ELSE children]

\* balancing starts at the successor's old parent if there is one, else at parent
\* balancing that always starts at the removed node's parent
balance_start_at_parent(u, parent) == LocalSlot(parent)

\* the link balance_stack is started with
balance_start(u, parent) ==
    IF Deref(u.t, u.successor_old_parent) # Nil
    THEN u.successor_old_parent
    ELSE LocalSlot(parent)

remove_balance(u, parent, children) ==
    remove_result(u, balance_stack(u.t, balance_start(u, parent)), children)

\* removal that takes one off len although the key was not found
remove_by_location_counts_absent(T, location) ==
    IF ~location.found
    THEN [t |-> [T EXCEPT !.len = @ - 1], removed |-> NoNode, rotated |-> FALSE,
          children |-> "Absent"]
    ELSE remove_balance(unlink(T, location.link_ptr, location.parent,
                               get_parentage(T, Deref(T, location.link_ptr)),
                               which_children_exist(T, Deref(T, location.link_ptr))),
                        location.parent,
                        which_children_exist(T, Deref(T, location.link_ptr)))

remove_by_location(T, location) ==
    IF ~location.found
    THEN [t |-> T, removed |-> NoNode, rotated |-> FALSE, children |-> "Absent"]
    ELSE remove_balance(unlink(T, location.link_ptr, location.parent,
                               get_parentage(T, Deref(T, location.link_ptr)),
                               which_children_exist(T, Deref(T, location.link_ptr))),
                        location.parent,
                        which_children_exist(T, Deref(T, location.link_ptr)))

AVLTree_remove(T, key) == remove_by_location(T, find_link_location(T, key))

AVLTree_has(T, key) == find_link(T, key) # Nil

\* get / get_mut: None is the empty link, Some(&value) is the node that holds it
AVLTree_get(T, key) == find_link(T, key)

is_balanced(T) ==
    LET root_balance == balance_factor(T, RootSlot)
    IN  root_balance \in -1..1

\* is_balanced as a call: balance_factor unwraps the link it is given, so the
\* call panics when the root is None
\* ---- the generic AVLTree<K, V> of lib.rs ----
\* Its tree record is the one above; value[n] is <<v>> for the value v of node n.
\* find_link_location, get_parentage, flip_link, height, balance_factor,
\* min_under_right and which_children_exist have the same text in lib.rs.

LibValue == [uid |-> "value"]

\* rotate, RRCase and LLCase arms: as above up to the write of root's near
\* link; the arm ends there
Lib_rotate_single(T, root_slot, case) ==
    LET near == IF case = "RRCase" THEN "right" ELSE "left"
        far == IF case = "RRCase" THEN "left" ELSE "right"
        root == Deref(T, root_slot)
        pivot == T[near][root]
        branch == Node_get_parentage(T, root)
    IN  CASE pivot # Nil ->
            [t |-> [T EXCEPT !.root = IF branch = "Root" THEN pivot ELSE @,
                             !.left = IF branch = "Left"
                                      THEN [@ EXCEPT ![T.parent[root]] = pivot] ELSE @,
                             !.right = IF branch = "Right"
                                       THEN [@ EXCEPT ![T.parent[root]] = pivot] ELSE @,
                             !.parent[pivot] = IF branch = "Root" THEN Nil ELSE T.parent[root],
                             ![far][pivot] = root,
                             !.parent[root] = pivot,
                             ![near][root] = T[far][pivot]],
             top |-> flip_link(T, T.parent[root])]

Lib_rotate_outer(first, case) == Lib_rotate_single(first.t, first.top, case)

Lib_rotate(T, root_slot, case) ==
    CASE case \in {"RRCase", "LLCase"} -> Lib_rotate_single(T, root_slot, case)
      [] case = "RLCase" ->
            Lib_rotate_outer(Lib_rotate_single(T, RightSlot(Deref(T, root_slot)), "LLCase"),
                             "RRCase")
      [] case = "LRCase" ->
            Lib_rotate_outer(Lib_rotate_single(T, LeftSlot(Deref(T, root_slot)), "RRCase"),
                             "LLCase")

Lib_balance(T, link) ==
    IF Deref(T, link) = Nil THEN T
    ELSE LET bf == balance_factor(T, link)
             node == Deref(T, link)
         IN  IF bf \in -1..1 THEN T
             ELSE Lib_rotate(T, link,
                             IF bf > 1
                             THEN IF balance_factor(T, RightSlot(node)) < 0
                                  THEN "RLCase" ELSE "RRCase"
                             ELSE IF balance_factor(T, LeftSlot(node)) > 0
                                  THEN "LRCase" ELSE "LLCase").t

RECURSIVE Lib_balance_stack(_, _)
Lib_balance_parent(T, current) ==
    IF is_root(T, Deref(T, current)) THEN T
    ELSE Lib_balance_stack(T, flip_link(T, T.parent[Deref(T, current)]))

Lib_balance_stack(T, current) ==
    IF Deref(T, current) = Nil THEN T
    ELSE Lib_balance_parent(Lib_balance(T, current), current)

\* insert: a key that is found is left as it is (the todo arm)
Lib_inserted(T2, location) ==
    [Lib_balance_stack(T2, LocalSlot(location.parent)) EXCEPT !.len = @ + 1]

Lib_insert(T, key, value) ==
    IF find_link_location(T, key).found THEN T
    ELSE Lib_inserted(link_new_node(T, find_link_location(T, key), key, value),
                      find_link_location(T, key))

\* replace_with_child: the removed node's parent is taken before the swap, and
\* its left, right and parent are cleared at the end
Lib_replace_with_child(T, link, which_child) ==
    LET node == Deref(T, link)
        parent_branch == get_parentage(T, Deref(T, link))
        parent == T.parent[node]
        field == CASE which_child = "Left" -> "left" [] which_child = "Right" -> "right"
        adopted_child == T[field][node]
        T2 == Store(T, link, adopted_child)
        T3 == IF adopted_child # Nil
              THEN [T2 EXCEPT !.parent[adopted_child] =
                                  IF parent_branch = "Root" THEN Nil ELSE parent]
              ELSE T2
    IN  CASE which_children_exist(T, node) # "Both" ->
            [t |-> [T3 EXCEPT !.left[node] = Nil, !.right[node] = Nil, !.parent[node] = Nil],
             removed |-> node]

\* Children::Both: the successor leaves its place (deeper: replaced by its right
\* child, and given the removed node's right child)
Lib_take_successor(T, removed_node_ptr, successor_link, deep) ==
    IF deep
    THEN adopt_right(Lib_replace_with_child(T, successor_link, "Right"), removed_node_ptr)
    ELSE [t |-> [T EXCEPT !.right[removed_node_ptr] = Nil],
          removed |-> T.right[removed_node_ptr]]

\* Children::Both: the successor gets the removed node's left child and is put
\* where the removed node was
Lib_place_successor(taken, removed_node_ptr, parent, branch, deep) ==
    LET Tb == taken.t
        successor == taken.removed
        Td == [Tb EXCEPT !.left[successor] = Tb.left[removed_node_ptr],
                         !.left[removed_node_ptr] = Nil,
                         !.parent[Tb.left[removed_node_ptr]] = successor]
    IN  [t |-> [Td EXCEPT !.root = IF branch = "Root" THEN successor ELSE @,
                          !.left = IF branch = "Left"
                                   THEN [@ EXCEPT ![parent] = successor] ELSE @,
                          !.right = IF branch = "Right"
                                    THEN [@ EXCEPT ![parent] = successor] ELSE @,
                          !.parent[successor] = IF branch = "Root" THEN Nil ELSE parent],
         removed_link |-> CASE branch = "Root" -> Td.root
                            [] branch = "Left" -> Td.left[parent]
                            [] branch = "Right" -> Td.right[parent],
         deep |-> deep]

Lib_remove_both(T, link_for_removal, parent, branch) ==
    Lib_place_successor(
        Lib_take_successor(T, Deref(T, link_for_removal),
                           min_under_right(T, link_for_removal),
                           Deref(T, min_under_right(T, link_for_removal)) #
                               T.right[Deref(T, link_for_removal)]),
        Deref(T, link_for_removal), parent, branch,
        Deref(T, min_under_right(T, link_for_removal)) # T.right[Deref(T, link_for_removal)])

Lib_unlinked(T, removed_link) == [t |-> T, removed_link |-> removed_link, deep |-> FALSE]

Lib_unlink_with_child(rc) == Lib_unlinked(rc.t, rc.removed)

Lib_unlink(T, link_for_removal, parent, branch, children) ==
    CASE children = "None" ->
            Lib_unlinked(Store(T, link_for_removal, Nil), Deref(T, link_for_removal))
      [] children \in {"Left", "Right"} ->
            Lib_unlink_with_child(Lib_replace_with_child(T, link_for_removal, children))
      [] children = "Both" -> Lib_remove_both(T, link_for_removal, parent, branch)

Lib_remove_result(u, T2, children) ==
    CASE u.removed_link # Nil ->
        [t |-> FreeNode([T2 EXCEPT !.len = @ - 1], u.removed_link),
         removed |-> BoxedNode(T2, u.removed_link),
         rotated |-> T2 # u.t,
         children |-> IF children = "Both"
                      THEN (IF u.deep THEN "BothDeep" ELSE "BothDirect")
                      ELSE children]

\* remove ends with balance_stack(&mut parent) in every arm
Lib_remove_balance(u, parent, children) ==
    Lib_remove_result(u, Lib_balance_stack(u.t, LocalSlot(parent)), children)

Lib_remove(T, key) ==
    IF ~find_link_location(T, key).found
    THEN [t |-> T, removed |-> NoNode, rotated |-> FALSE, children |-> "Absent"]
    ELSE Lib_remove_balance(
             Lib_unlink(T, find_link_location(T, key).link_ptr,
                        find_link_location(T, key).parent,
                        get_parentage(T, find_link(T, key)),
                        which_children_exist(T, find_link(T, key))),
             find_link_location(T, key).parent,
             which_children_exist(T, find_link(T, key)))

\* Drop for AVLTree: while the root is Some, remove the root's key.  freed is
\* the keys of the nodes the removals returned; the loop has not ended if it is
\* cut off with a root left.
RECURSIVE drop_loop(_, _, _)
drop_removed(r, freed, fuel) == drop_loop(r.t, Append(freed, r.removed.key), fuel)

drop_loop(T, freed, fuel) ==
    IF T.root = Nil \/ fuel = 0 THEN [t |-> T, freed |-> freed]
    ELSE drop_removed(AVLTree_remove(T, T.root), freed, fuel - 1)

\* drop that removes the root once instead of looping
AVLTree_drop_once(T) == drop_loop(T, <<>>, 1)

AVLTree_drop(T) == drop_loop(T, <<>>, 2 * MaxKey)

AVLTree_is_balanced(T) ==
    IF Deref(T, RootSlot) = Nil THEN [panic |-> TRUE, balanced |-> FALSE]
    ELSE [panic |-> FALSE, balanced |-> is_balanced(T)]

\* Iter: one current link plus the first-move flag
AVLTree_iter(T) == [current_link |-> T.root, first_move |-> TRUE]

RECURSIVE descend(_, _, _)
descend(T, l, field) ==
    IF T[field][l] # Nil THEN descend(T, T[field][l], field) ELSE l

\* the climb of next (yield when leaving a Left branch) and of next_back (Right)
RECURSIVE climb(_, _, _)
climb(T, current_link, yield_branch) ==
    LET branch == get_parentage(T, current_link)
    IN  IF branch = "Root"
        THEN [it |-> [current_link |-> current_link, first_move |-> FALSE], item |-> Nil]
        ELSE IF branch = yield_branch
        THEN [it |-> [current_link |-> T.parent[current_link], first_move |-> FALSE],
              item |-> T.parent[current_link]]
        ELSE climb(T, T.parent[current_link], yield_branch)

\* an item is the node whose (key, value) pair is handed out; Nil is None
Iter_step(T, it, down, up, yield_branch) ==
    IF it.first_move
    THEN IF it.current_link = Nil THEN [it |-> it, item |-> Nil]
         ELSE LET c == descend(T, it.current_link, down)
              IN  [it |-> [current_link |-> c, first_move |-> FALSE], item |-> c]
    ELSE IF T[up][it.current_link] # Nil
         THEN LET c == descend(T, T[up][it.current_link], down)
              IN  [it |-> [current_link |-> c, first_move |-> FALSE], item |-> c]
         ELSE climb(T, it.current_link, yield_branch)

\* next that hands out the parent when it leaves a right branch
Iter_next_yields_on_right(T, it) == Iter_step(T, it, "left", "right", "Right")

Iter_next(T, it) == Iter_step(T, it, "left", "right", "Left")

Iter_next_back(T, it) == Iter_step(T, it, "right", "left", "Right")

\* ------------------------------------------------------------------------
\* OrderStack (orderbook_py.rs)
\* ------------------------------------------------------------------------
Positions(stack, order_uid) == {i \in 1..Len(stack) : stack[i].uid = order_uid}

\* position(): index of the first order with that uid, 0 when there is none
OrderStack_position(stack, order_uid) ==
    IF Positions(stack, order_uid) = {} THEN 0
    ELSE CHOOSE i \in Positions(stack, order_uid) :
            \A j \in Positions(stack, order_uid) : i <= j

\* remove that takes the order at the front, whatever its uid
OrderStack_remove_front(stack, order_uid) ==
    IF stack = <<>> THEN stack ELSE Tail(stack)

\* remove that fills the hole with the last order of the stack
OrderStack_swap_remove(stack, order_uid) ==
    LET index == OrderStack_position(stack, order_uid)
    IN  IF index = 0 THEN stack
        ELSE [i \in 1..(Len(stack) - 1) |-> IF i = index THEN stack[Len(stack)] ELSE stack[i]]

OrderStack_remove(stack, order_uid) ==
    LET index == OrderStack_position(stack, order_uid)
    IN  IF index = 0 THEN stack
        ELSE [i \in 1..(Len(stack) - 1) |-> IF i < index THEN stack[i] ELSE stack[i + 1]]

OrderStack_get_order(stack, order_uid) == OrderStack_position(stack, order_uid)

OrderStack_cum_order_size(stack) ==
    LET RECURSIVE fold(_)
        fold(i) == IF i = 0 THEN 0 ELSE fold(i - 1) + stack[i].size
    IN  fold(Len(stack))

\* ------------------------------------------------------------------------
\* LimitOrderbook (orderbook_py.rs)
\* ------------------------------------------------------------------------
NoEntry == <<>>

LimitOrderbook_new ==
    [bids |-> AVLTree_new, asks |-> AVLTree_new,
     order_map |-> [u \in Uids |-> NoEntry],
     len |-> 0, items_processed |-> 0]

TreeField(side) == CASE side = "Bids" -> "bids" [] side = "Asks" -> "asks"

best_ask(B) == Iter_next_back(B.asks, AVLTree_iter(B.asks)).item

\* best_bid read from the front of the iterator
best_bid_front(B) == Iter_next(B.bids, AVLTree_iter(B.bids)).item

best_bid(B) == Iter_next_back(B.bids, AVLTree_iter(B.bids)).item

node_count(B) == B.bids.len + B.asks.len

\* get_order / get_mut: where the order lives, or "None"; both unwraps must succeed
get_order(B, order_uid) ==
    IF B.order_map[order_uid] = NoEntry THEN [found |-> FALSE]
    ELSE LET side == B.order_map[order_uid][1]
             key == B.order_map[order_uid][2]
             node == AVLTree_get(B[TreeField(side)], key)
             index == OrderStack_get_order(B[TreeField(side)].value[node], order_uid)
         IN  CASE node # Nil /\ index # 0 ->
                 [found |-> TRUE, side |-> side, node |-> node, index |-> index]

has(B, order_uid) == get_order(B, order_uid).found

\* get_order / get_order_mut panic: the uid is indexed and one of the two
\* unwraps meets None (no node at the indexed price, or no such order in its stack)
get_order_panics(B, order_uid) ==
    /\ B.order_map[order_uid] # NoEntry
    /\ \/ AVLTree_get(B[TreeField(B.order_map[order_uid][1])],
                      B.order_map[order_uid][2]) = Nil
       \/ OrderStack_get_order(
              B[TreeField(B.order_map[order_uid][1])].value[B.order_map[order_uid][2]],
              order_uid) = 0

\* remove panics: the uid is indexed and get_mut(key).unwrap() meets None
remove_panics(B, order_uid) ==
    /\ B.order_map[order_uid] # NoEntry
    /\ AVLTree_get(B[TreeField(B.order_map[order_uid][1])],
                   B.order_map[order_uid][2]) = Nil

LimitOrderbook_insert(B, order) ==
    LET f == TreeField(order.side)
    IN  [B EXCEPT ![f] = AVLTree_insert(B[f], order.price, order),
                  !.order_map[order.uid] = <<order.side, order.price>>,
                  !.len = @ + 1]

\* remove that forgets len
LimitOrderbook_remove_keep_len(B, order_uid) ==
    IF B.order_map[order_uid] = NoEntry THEN B
    ELSE LET side == B.order_map[order_uid][1]
             key == B.order_map[order_uid][2]
             f == TreeField(side)
             node == AVLTree_get(B[f], key)
             order_stack == OrderStack_remove(B[f].value[node], order_uid)
             T1 == [B[f] EXCEPT !.value[node] = order_stack]
             T2 == IF order_stack = <<>> THEN AVLTree_remove(T1, key).t ELSE T1
         IN  CASE node # Nil -> [B EXCEPT ![f] = T2, !.order_map[order_uid] = NoEntry]

\* remove that leaves the node of an emptied stack in the tree
LimitOrderbook_remove_keep_node(B, order_uid) ==
    IF B.order_map[order_uid] = NoEntry THEN B
    ELSE LET side == B.order_map[order_uid][1]
             key == B.order_map[order_uid][2]
             f == TreeField(side)
             node == AVLTree_get(B[f], key)
             order_stack == OrderStack_remove(B[f].value[node], order_uid)
         IN  CASE node # Nil ->
                 [B EXCEPT ![f].value[node] = order_stack, !.len = @ - 1,
                           !.order_map[order_uid] = NoEntry]

\* remove that counts the order down before it looks the uid up
LimitOrderbook_remove_unchecked(B, order_uid) ==
    IF B.order_map[order_uid] = NoEntry THEN [B EXCEPT !.len = @ - 1]
    ELSE LET side == B.order_map[order_uid][1]
             key == B.order_map[order_uid][2]
             f == TreeField(side)
             node == AVLTree_get(B[f], key)
             order_stack == OrderStack_remove(B[f].value[node], order_uid)
             T1 == [B[f] EXCEPT !.value[node] = order_stack]
             T2 == IF order_stack = <<>> THEN AVLTree_remove(T1, key).t ELSE T1
         IN  CASE node # Nil ->
                 [B EXCEPT ![f] = T2, !.len = @ - 1, !.order_map[order_uid] = NoEntry]

\* remove that never drops the index entry
LimitOrderbook_remove_forgets_index(B, order_uid) ==
    IF B.order_map[order_uid] = NoEntry THEN B
    ELSE LET side == B.order_map[order_uid][1]
             key == B.order_map[order_uid][2]
             f == TreeField(side)
             node == AVLTree_get(B[f], key)
             order_stack == OrderStack_remove(B[f].value[node], order_uid)
             T1 == [B[f] EXCEPT !.value[node] = order_stack]
             T2 == IF order_stack = <<>> THEN AVLTree_remove(T1, key).t ELSE T1
         IN  CASE node # Nil -> [B EXCEPT ![f] = T2, !.len = @ - 1]

\* remove that drops the index entry only together with the price level
LimitOrderbook_remove_keep_index(B, order_uid) ==
    IF B.order_map[order_uid] = NoEntry THEN B
    ELSE LET side == B.order_map[order_uid][1]
             key == B.order_map[order_uid][2]
             f == TreeField(side)
             node == AVLTree_get(B[f], key)
             order_stack == OrderStack_remove(B[f].value[node], order_uid)
             T1 == [B[f] EXCEPT !.value[node] = order_stack]
         IN  CASE node # Nil ->
                 IF order_stack = <<>>
                 THEN [B EXCEPT ![f] = AVLTree_remove(T1, key).t, !.len = @ - 1,
                                !.order_map[order_uid] = NoEntry]
                 ELSE [B EXCEPT ![f] = T1, !.len = @ - 1]

LimitOrderbook_remove(B, order_uid) ==
    IF B.order_map[order_uid] = NoEntry THEN B
    ELSE LET side == B.order_map[order_uid][1]
             key == B.order_map[order_uid][2]
             f == TreeField(side)
             node == AVLTree_get(B[f], key)
             order_stack == OrderStack_remove(B[f].value[node], order_uid)
             T1 == [B[f] EXCEPT !.value[node] = order_stack]
             T2 == IF order_stack = <<>> THEN AVLTree_remove(T1, key).t ELSE T1
         IN  CASE node # Nil ->
                 [B EXCEPT ![f] = T2, !.len = @ - 1, !.order_map[order_uid] = NoEntry]

\* update that writes the size 0 into the order instead of removing it
LimitOrderbook_update_writes_zero(B, order_uid, new_size) ==
    LET order == get_order(B, order_uid)
    IN  IF ~order.found THEN B
        ELSE [B EXCEPT ![TreeField(order.side)].value[order.node][order.index].size = new_size]

\* update that drops the index entry of the order it resizes
LimitOrderbook_update_drops_index(B, order_uid, new_size) ==
    LET order == get_order(B, order_uid)
    IN  IF ~order.found THEN B
        ELSE IF new_size = 0 THEN LimitOrderbook_remove(B, order_uid)
        ELSE [B EXCEPT ![TreeField(order.side)].value[order.node][order.index].size = new_size,
                       !.order_map[order_uid] = NoEntry]

\* update that takes the order out of its stack and queues it again at the back
LimitOrderbook_update_requeues(B, order_uid, new_size) ==
    LET order == get_order(B, order_uid)
    IN  IF ~order.found THEN B
        ELSE IF new_size = 0 THEN LimitOrderbook_remove(B, order_uid)
        ELSE [B EXCEPT ![TreeField(order.side)].value[order.node] =
                 Append(OrderStack_remove(@, order_uid),
                        [@[order.index] EXCEPT !.size = new_size])]

LimitOrderbook_update(B, order_uid, new_size) ==
    LET order == get_order(B, order_uid)
    IN  IF ~order.found THEN B
        ELSE IF new_size = 0 THEN LimitOrderbook_remove(B, order_uid)
        ELSE [B EXCEPT ![TreeField(order.side)].value[order.node][order.index].size = new_size]

LimitOrderbook_process(B, order, action) ==
    LET B1 == CASE action = "Insert" -> LimitOrderbook_insert(B, order)
                [] action = "Remove" -> LimitOrderbook_remove(B, order.uid)
                [] action = "Update" -> LimitOrderbook_update(B, order.uid, order.size)
    IN  [B1 EXCEPT !.items_processed = @ + 1]

\* check(): the messages collected, and whether one of the is_balanced calls panicked
LimitOrderbook_check(B) ==
    [panic |-> AVLTree_is_balanced(B.bids).panic \/ AVLTree_is_balanced(B.asks).panic,
     error_msgs |->
         (IF ~AVLTree_is_balanced(B.bids).panic /\ ~AVLTree_is_balanced(B.bids).balanced
          THEN {"Bids are not balanced!"} ELSE {}) \cup
         (IF ~AVLTree_is_balanced(B.asks).panic /\ ~AVLTree_is_balanced(B.asks).balanced
          THEN {"Asks are not balanced!"} ELSE {})]

\* Peekable over the tree's Iter: the iterator plus the item peek() has cached
Peekable_new(T) == [it |-> AVLTree_iter(T), has_peek |-> FALSE, peek |-> Nil]

Peekable_peek(T, p) ==
    IF p.has_peek THEN p
    ELSE [it |-> Iter_next(T, p.it).it, has_peek |-> TRUE, peek |-> Iter_next(T, p.it).item]

Peekable_next(T, p) ==
    IF p.has_peek THEN [p |-> [p EXCEPT !.has_peek = FALSE], item |-> p.peek]
    ELSE [p |-> [p EXCEPT !.it = Iter_next(T, p.it).it], item |-> Iter_next(T, p.it).item]

\* iter(): current_node is a node of the tree current_tree, or Nil for None;
\* stack_iter is the position of the stack it hands out next, or 0 for None
iter_start(B, bid_tree_iter, ask_tree_iter) ==
    IF bid_tree_iter.peek # Nil
    THEN [side |-> "Bids", current_node |-> bid_tree_iter.peek, current_tree |-> "bids",
          bid_tree_iter |-> Peekable_next(B.bids, bid_tree_iter).p,
          ask_tree_iter |-> Peekable_new(B.asks), stack_iter |-> 1]
    ELSE IF Peekable_peek(B.asks, ask_tree_iter).peek # Nil
    THEN [side |-> "Bids", current_node |-> Peekable_peek(B.asks, ask_tree_iter).peek,
          current_tree |-> "asks", bid_tree_iter |-> bid_tree_iter,
          ask_tree_iter |-> Peekable_next(B.asks, Peekable_peek(B.asks, ask_tree_iter)).p,
          stack_iter |-> 1]
    ELSE [side |-> "Bids", current_node |-> Nil, current_tree |-> "bids",
          bid_tree_iter |-> bid_tree_iter,
          ask_tree_iter |-> Peekable_peek(B.asks, ask_tree_iter), stack_iter |-> 0]

LimitOrderbook_iter(B) ==
    iter_start(B, Peekable_peek(B.bids, Peekable_new(B.bids)), Peekable_new(B.asks))

\* the iterator after `self.current_node = tree_iter.next()` and the match on it
next_node(it, f, n) ==
    [it EXCEPT !.current_node = n.item, !.current_tree = f,
               ![IF f = "bids" THEN "bid_tree_iter" ELSE "ask_tree_iter"] = n.p,
               !.stack_iter = IF n.item = Nil THEN 0 ELSE 1]

RECURSIVE LimitOrderbook_Iter_next(_, _)
\* the move from the bids to the asks, n being ask_tree_iter.next(); the
\* unwrap of a None current_node panics
switch_to_asks(B, it, n) ==
    IF n.item = Nil
    THEN [it |-> [it EXCEPT !.side = "Asks", !.current_node = Nil, !.ask_tree_iter = n.p],
          some |-> FALSE, item |-> NoOrder, panic |-> TRUE]
    ELSE LimitOrderbook_Iter_next(B, [next_node(it, "asks", n) EXCEPT !.side = "Asks"])

\* Iter::next: the iterator afterwards, the order handed out (some) or None,
\* and whether the call panicked on an unwrap of None
LimitOrderbook_Iter_next(B, it) ==
    IF it.current_node # Nil
    THEN IF it.stack_iter <= Len(B[it.current_tree].value[it.current_node])
         THEN [it |-> [it EXCEPT !.stack_iter = @ + 1], some |-> TRUE,
               item |-> B[it.current_tree].value[it.current_node][it.stack_iter],
               panic |-> FALSE]
         ELSE IF it.side = "Bids"
         THEN LimitOrderbook_Iter_next(B,
                  next_node(it, "bids", Peekable_next(B.bids, it.bid_tree_iter)))
         ELSE LimitOrderbook_Iter_next(B,
                  next_node(it, "asks", Peekable_next(B.asks, it.ask_tree_iter)))
    ELSE IF it.side = "Bids"
    THEN switch_to_asks(B, it, Peekable_next(B.asks, it.ask_tree_iter))
    ELSE [it |-> it, some |-> FALSE, item |-> NoOrder, panic |-> FALSE]

\* ------------------------------------------------------------------------
\* LimitOrderbook (orderbook_btree_slab.rs).  Its trees come from the module
\* avl_tree, of which the book uses new, insert, get_mut, remove, is_empty,
\* len and the two ends of iter: a map from the prices present to their stacks.
\* Prices are even numbers of ticks, so that price / outlier_factor and
\* price * outlier_factor are exact, as they are in f64 for these values.
\* ------------------------------------------------------------------------
SlabPrices == {outlier_factor * i : i \in 1..MaxTick}
SlabOrders == [uid : Uids, side : Sides, price : SlabPrices, size : InsertSizes]

avl_tree_new == [keys |-> {}, value |-> [p \in SlabPrices |-> <<>>]]

avl_tree_is_empty(T) == T.keys = {}

avl_tree_len(T) == Cardinality(T.keys)

avl_tree_insert(T, key, order) ==
    [keys |-> T.keys \cup {key}, value |-> [T.value EXCEPT ![key] = Append(@, order)]]

avl_tree_remove(T, key) ==
    [keys |-> T.keys \ {key}, value |-> [T.value EXCEPT ![key] = <<>>]]

avl_tree_get(T, key) == IF key \in T.keys THEN key ELSE Nil

avl_tree_first(T) == IF T.keys = {} THEN Nil ELSE CHOOSE k \in T.keys : \A j \in T.keys : k <= j

avl_tree_last(T) == IF T.keys = {} THEN Nil ELSE CHOOSE k \in T.keys : \A j \in T.keys : k >= j

\* timestamps: the clock reading taken by new(), and the ones orders carry
ConstructionTime == 0
OrderTimestamps == {1}

Slab_new ==
    [bids |-> avl_tree_new, asks |-> avl_tree_new,
     order_map |-> [u \in Uids |-> NoEntry],
     len |-> 0, items_processed |-> 0,
     timestamp |-> ConstructionTime,
     bid_cutoff |-> 0, ask_cutoff |-> 0, outliers |-> 0]

Slab_timestamp(B) == B.timestamp

Slab_best_ask(B) == avl_tree_first(B.asks)

Slab_best_bid(B) == avl_tree_last(B.bids)

Slab_node_count(B) == avl_tree_len(B.bids) + avl_tree_len(B.asks)

Slab_get_order(B, order_uid) ==
    IF B.order_map[order_uid] = NoEntry THEN [found |-> FALSE]
    ELSE LET side == B.order_map[order_uid][1]
             key == B.order_map[order_uid][2]
             node == avl_tree_get(B[TreeField(side)], key)
             index == OrderStack_get_order(B[TreeField(side)].value[node], order_uid)
         IN  CASE node # Nil /\ index # 0 ->
                 [found |-> TRUE, side |-> side, node |-> node, index |-> index]

\* the check with one cutoff write for both sides
handle_outlier_writes_both_cutoffs(B, order) ==
    IF order.side = "Bids"
    THEN IF avl_tree_is_empty(B.bids) \/ order.price > Slab_best_bid(B)
         THEN [b |-> [B EXCEPT !.bid_cutoff = order.price \div outlier_factor,
                               !.ask_cutoff = order.price * outlier_factor],
               outlier |-> FALSE]
         ELSE [b |-> B, outlier |-> ~(order.price > B.bid_cutoff)]
    ELSE IF avl_tree_is_empty(B.asks) \/ order.price < Slab_best_ask(B)
         THEN [b |-> [B EXCEPT !.bid_cutoff = order.price \div outlier_factor,
                               !.ask_cutoff = order.price * outlier_factor],
               outlier |-> FALSE]
         ELSE [b |-> B, outlier |-> ~(order.price < B.ask_cutoff)]

\* the book after the check, and whether the order is an outlier
handle_outlier(B, order) ==
    IF order.side = "Bids"
    THEN IF avl_tree_is_empty(B.bids)
         THEN [b |-> [B EXCEPT !.bid_cutoff = order.price \div outlier_factor], outlier |-> FALSE]
         ELSE IF order.price > Slab_best_bid(B)
         THEN [b |-> [B EXCEPT !.bid_cutoff = order.price \div outlier_factor], outlier |-> FALSE]
         ELSE IF order.price > B.bid_cutoff
         THEN [b |-> B, outlier |-> FALSE]
         ELSE [b |-> B, outlier |-> TRUE]
    ELSE IF avl_tree_is_empty(B.asks)
         THEN [b |-> [B EXCEPT !.ask_cutoff = order.price * outlier_factor], outlier |-> FALSE]
         ELSE IF order.price < Slab_best_ask(B)
         THEN [b |-> [B EXCEPT !.ask_cutoff = order.price * outlier_factor], outlier |-> FALSE]
         ELSE IF order.price < B.ask_cutoff
         THEN [b |-> B, outlier |-> FALSE]
         ELSE [b |-> B, outlier |-> TRUE]

\* insert that counts a rejected order into len
Slab_insert_counts_rejected(B, order) ==
    LET h == handle_outlier(B, order)
        f == TreeField(order.side)
    IN  IF ~h.outlier
        THEN [b |-> [h.b EXCEPT ![f] = avl_tree_insert(h.b[f], order.price, order),
                                !.order_map[order.uid] = <<order.side, order.price>>,
                                !.len = @ + 1],
              inserted |-> TRUE]
        ELSE [b |-> [h.b EXCEPT !.outliers = @ + 1, !.len = @ + 1], inserted |-> FALSE]

\* the book after insert, and the value insert returns
Slab_insert(B, order) ==
    LET h == handle_outlier(B, order)
        f == TreeField(order.side)
    IN  IF ~h.outlier
        THEN [b |-> [h.b EXCEPT ![f] = avl_tree_insert(h.b[f], order.price, order),
                                !.order_map[order.uid] = <<order.side, order.price>>,
                                !.len = @ + 1],
              inserted |-> TRUE]
        ELSE [b |-> [h.b EXCEPT !.outliers = @ + 1], inserted |-> FALSE]

Slab_remove(B, order_uid) ==
    IF B.order_map[order_uid] = NoEntry THEN B
    ELSE LET side == B.order_map[order_uid][1]
             key == B.order_map[order_uid][2]
             f == TreeField(side)
             node == avl_tree_get(B[f], key)
             order_stack == OrderStack_remove(B[f].value[node], order_uid)
             T1 == [B[f] EXCEPT !.value[node] = order_stack]
             T2 == IF order_stack = <<>> THEN avl_tree_remove(T1, key) ELSE T1
         IN  CASE node # Nil ->
                 [B EXCEPT ![f] = T2, !.len = @ - 1, !.order_map[order_uid] = NoEntry]

Slab_update(B, order_uid, new_size) ==
    LET order == Slab_get_order(B, order_uid)
    IN  IF ~order.found THEN B
        ELSE IF new_size = 0 THEN Slab_remove(B, order_uid)
        ELSE [B EXCEPT ![TreeField(order.side)].value[order.node][order.index].size = new_size]

\* iter() of a tree: its keys in ascending order
RECURSIVE avl_tree_ascending(_)
avl_tree_ascending(keys) ==
    IF keys = {} THEN <<>>
    ELSE LET k == CHOOSE x \in keys : \A y \in keys : x <= y
         IN  <<k>> \o avl_tree_ascending(keys \ {k})

avl_tree_iter(T) == avl_tree_ascending(T.keys)

\* Iterator::rev
Rev(seq) == [i \in 1..Len(seq) |-> seq[Len(seq) + 1 - i]]

Slab_OrderStack_size(stack) ==
    LET RECURSIVE fold(_)
        fold(i) == IF i = 0 THEN 0 ELSE fold(i - 1) + stack[i].size
    IN  fold(Len(stack))

\* scan(0.0, ..): the tuples of the nodes from position i on, cumsum carried along
RECURSIVE levels_scan(_, _, _, _)
levels_scan(T, nodes, i, cumsum) ==
    IF i > Len(nodes) THEN <<>>
    ELSE <<<<nodes[i], Slab_OrderStack_size(T.value[nodes[i]]),
             cumsum + nodes[i] * Slab_OrderStack_size(T.value[nodes[i]])>>>> \o
         levels_scan(T, nodes, i + 1,
                     cumsum + nodes[i] * Slab_OrderStack_size(T.value[nodes[i]]))

\* levels that walks the bids forward, as it walks the asks
Slab_levels_forward(B, side) ==
    IF side = "Bids"
    THEN levels_scan(B.bids, avl_tree_iter(B.bids), 1, 0)
    ELSE levels_scan(B.asks, avl_tree_iter(B.asks), 1, 0)

Slab_levels(B, side) ==
    IF side = "Bids"
    THEN levels_scan(B.bids, Rev(avl_tree_iter(B.bids)), 1, 0)
    ELSE levels_scan(B.asks, avl_tree_iter(B.asks), 1, 0)

\* process that does not count an order which insert rejected
Slab_process_skips_rejected(B, order, action) ==
    CASE action = "Insert" ->
             IF Slab_insert(B, order).inserted
             THEN [Slab_insert(B, order).b EXCEPT !.items_processed = @ + 1]
             ELSE Slab_insert(B, order).b
      [] action = "Remove" ->
             [Slab_remove(B, order.uid) EXCEPT !.items_processed = @ + 1]
      [] action = "Update" ->
             [Slab_update(B, order.uid, order.size) EXCEPT !.items_processed = @ + 1]

Slab_process(B, order, action) ==
    CASE action = "Insert" ->
             [Slab_insert(B, order).b EXCEPT !.items_processed = @ + 1]
      [] action = "Remove" ->
             [Slab_remove(B, order.uid) EXCEPT !.items_processed = @ + 1]
      [] action = "Update" ->
             [Slab_update(B, order.uid, order.size) EXCEPT !.items_processed = @ + 1]

\* ------------------------------------------------------------------------
\* State
\* ------------------------------------------------------------------------
VARIABLES
    tree,        \* an AVLTree<i32> driven through insert / remove, as in the tree's tests
    tree_last,   \* the call that produced `tree`: which call, and which arm of it ran;
                 \* map: the orders the calls so far put under each key (none: key absent)
                 \* freed: after a drop, the keys of the nodes it freed, in order
    lob,         \* the LimitOrderbook of orderbook_py.rs
    lob_last,    \* the call that produced `lob`, and whether its uid was indexed before it
    slab,        \* the LimitOrderbook of orderbook_btree_slab.rs
    slab_last    \* the call that produced `slab`: its order and what insert returned

vars == <<tree, tree_last, lob, lob_last, slab, slab_last>>
treeVars == <<tree, tree_last>>
lobVars == <<lob, lob_last>>
slabVars == <<slab, slab_last>>

BookInit ==
    /\ lob = LimitOrderbook_new
    /\ lob_last = [op |-> "new", uid |-> Nil, known |-> FALSE, repeated |-> FALSE,
                   delta |-> 0, again |-> FALSE]
    /\ slab = Slab_new
    /\ slab_last = [op |-> "new", side |-> "Bids", price |-> 0, inserted |-> FALSE]

\* ------------------------------------------------------------------------
\* The tree driven directly (tests of avl_tree_py.rs: insert(key, None), remove(&key))
\* ------------------------------------------------------------------------
\* orders appended to the stack of an existing key
RECURSIVE SumLen(_, _)
SumLen(T, S) ==
    IF S = {} THEN 0
    ELSE LET k == CHOOSE x \in S : TRUE
         IN  Len(T.value[k]) + SumLen(T, S \ {k})

Appended(T) == SumLen(T, Keys) - T.len

TreeInit ==
    /\ tree = AVLTree_new
    /\ tree_last = [op |-> "new", arm |-> "None", rotated |-> FALSE,
                    map |-> [k \in Keys |-> <<>>], freed |-> <<>>]
    /\ BookInit

TreeInsert(key) ==
    /\ AVLTree_has(tree, key) => Appended(tree) < MaxExtra
    /\ UNCHANGED <<lobVars, slabVars>>
    /\ tree' = AVLTree_insert(tree, key, NoOrder)
    /\ tree_last' = [op |-> "insert",
                     arm |-> IF find_link_location(tree, key).found THEN "Append" ELSE "New",
                     rotated |-> /\ ~find_link_location(tree, key).found
                                 /\ [tree' EXCEPT !.len = 0] #
                                    [link_new_node(tree, find_link_location(tree, key),
                                                   key, DefaultOrder) EXCEPT !.len = 0],
                     map |-> [tree_last.map EXCEPT ![key] = Append(@, DefaultOrder)],
                     freed |-> <<>>]

TreeRemove(key) ==
    LET r == AVLTree_remove(tree, key)
    IN  /\ UNCHANGED <<lobVars, slabVars>>
        /\ tree' = r.t
        /\ tree_last' = [op |-> "remove", arm |-> r.children,
                         rotated |-> r.rotated,
                         map |-> [tree_last.map EXCEPT ![key] = <<>>],
                         freed |-> <<>>]

TreeNext ==
    \/ \E key \in Keys : TreeInsert(key)
    \/ \E key \in Keys : TreeRemove(key)

TreeSpec == TreeInit /\ [][TreeNext]_vars

\* The tree driven directly and dropped at any point; a new tree takes its place.
TreeDropped(r) ==
    /\ UNCHANGED <<lobVars, slabVars>>
    /\ tree' = r.t
    /\ tree_last' = [op |-> "drop", arm |-> "None", rotated |-> FALSE,
                     map |-> [k \in Keys |-> <<>>], freed |-> r.freed]

TreeDrop == TreeDropped(AVLTree_drop(tree))

DropNext ==
    \/ \E key \in Keys : TreeInsert(key)
    \/ \E key \in Keys : TreeRemove(key)
    \/ TreeDrop

DropSpec == TreeInit /\ [][DropNext]_vars

\* The same tree as a map: three keys, and insert called with and without an
\* order (insert(key, None) stores Order::default()).
MapKeys == {1, 2, 3}

OrderA == [uid |-> "a", side |-> "Bids", price |-> 1, size |-> 1]

MapOrders == {NoOrder, OrderA}

MapInsert(key, order) ==
    /\ AVLTree_has(tree, key) => Appended(tree) < MaxExtra
    /\ UNCHANGED <<lobVars, slabVars>>
    /\ tree' = AVLTree_insert(tree, key, order)
    /\ tree_last' = [op |-> "insert",
                     arm |-> IF find_link_location(tree, key).found THEN "Append" ELSE "New",
                     rotated |-> /\ ~find_link_location(tree, key).found
                                 /\ [tree' EXCEPT !.len = 0] #
                                    [link_new_node(tree, find_link_location(tree, key), key,
                                                   IF order = NoOrder THEN DefaultOrder
                                                   ELSE order) EXCEPT !.len = 0],
                     map |-> [tree_last.map EXCEPT
                                ![key] = Append(@, IF order = NoOrder THEN DefaultOrder
                                                   ELSE order)],
                     freed |-> <<>>]

MapNext ==
    \/ \E key \in MapKeys, order \in MapOrders : MapInsert(key, order)
    \/ \E key \in MapKeys : TreeRemove(key)

MapSpec == TreeInit /\ [][MapNext]_vars

\* ------------------------------------------------------------------------
\* The order book of orderbook_py.rs.  Spec drives insert / remove / update
\* directly, as the book's tests do; ProcSpec sends all traffic through process.
\* ------------------------------------------------------------------------
Init == TreeInit

Known(order_uid) == lob.order_map[order_uid] # NoEntry

\* known: the uid was indexed when the call was made; repeated: some Insert so
\* far carried an indexed uid; delta: change of node_count made by the call;
\* again: the call is a remove that directly follows a remove of the same uid
\* which found that uid in the index
Last(op, order_uid) ==
    [op |-> op, uid |-> order_uid, known |-> Known(order_uid),
     repeated |-> lob_last.repeated \/ (op = "Insert" /\ Known(order_uid)),
     delta |-> node_count(lob') - node_count(lob),
     again |-> /\ op = "Remove" /\ lob_last.op = "Remove"
               /\ lob_last.uid = order_uid /\ lob_last.known]

Insert(order) ==
    /\ lob.len < MaxOrders
    /\ lob' = LimitOrderbook_insert(lob, order)
    /\ lob_last' = Last("Insert", order.uid)
    /\ UNCHANGED <<treeVars, slabVars>>

Remove(order_uid) ==
    /\ lob' = LimitOrderbook_remove(lob, order_uid)
    /\ lob_last' = Last("Remove", order_uid)
    /\ UNCHANGED <<treeVars, slabVars>>

Update(order_uid, new_size) ==
    /\ lob' = LimitOrderbook_update(lob, order_uid, new_size)
    /\ lob_last' = Last("Update", order_uid)
    /\ UNCHANGED <<treeVars, slabVars>>

Process(order, action) ==
    /\ lob.items_processed < MaxProcessed
    /\ action = "Insert" => lob.len < MaxOrders
    /\ lob' = LimitOrderbook_process(lob, order, action)
    /\ lob_last' = Last(action, order.uid)
    /\ UNCHANGED <<treeVars, slabVars>>

Next ==
    \/ \E order \in Orders : Insert(order)
    \/ \E order_uid \in Uids : Remove(order_uid)
    \/ \E order_uid \in Uids, new_size \in UpdateSizes : Update(order_uid, new_size)

Spec == Init /\ [][Next]_vars

ProcNext ==
    \/ \E order \in Orders : Process(order, "Insert")
    \/ \E order \in Orders : Process(order, "Remove")
    \/ \E order \in Orders, new_size \in UpdateSizes :
          Process([order EXCEPT !.size = new_size], "Update")

ProcSpec == Init /\ [][ProcNext]_vars

\* ------------------------------------------------------------------------
\* The same book with up to MaxFifoOrders bids from MaxFifoUid senders, all at
\* one price, so that three orders queue in one stack.
\* ------------------------------------------------------------------------
FifoUids == 1..MaxFifoUid
FifoPrices == {1}
FifoOrders == [uid : FifoUids, side : {"Bids"}, price : FifoPrices, size : InsertSizes]

FifoInit ==
    /\ tree = AVLTree_new
    /\ tree_last = [op |-> "new", arm |-> "None", rotated |-> FALSE,
                    map |-> [k \in Keys |-> <<>>], freed |-> <<>>]
    /\ lob = [LimitOrderbook_new EXCEPT !.order_map = [u \in FifoUids |-> NoEntry]]
    /\ lob_last = [op |-> "new", uid |-> Nil, known |-> FALSE, repeated |-> FALSE,
                   delta |-> 0, again |-> FALSE]
    /\ slab = Slab_new
    /\ slab_last = [op |-> "new", side |-> "Bids", price |-> 0, inserted |-> FALSE]

FifoInsert(order) ==
    /\ lob.len < MaxFifoOrders
    /\ lob' = LimitOrderbook_insert(lob, order)
    /\ lob_last' = Last("Insert", order.uid)
    /\ UNCHANGED <<treeVars, slabVars>>

FifoNext ==
    \/ \E order \in FifoOrders : FifoInsert(order)
    \/ \E order_uid \in FifoUids : Remove(order_uid)
    \/ \E order_uid \in FifoUids, new_size \in UpdateSizes : Update(order_uid, new_size)

FifoSpec == FifoInit /\ [][FifoNext]_vars

\* ------------------------------------------------------------------------
\* The order book of orderbook_btree_slab.rs, driven through insert / remove / update
\* ------------------------------------------------------------------------
SlabInsert(order) ==
    LET r == Slab_insert(slab, order)
    IN  /\ slab.len < MaxOrders
        /\ slab.outliers < MaxOutliers
        /\ slab' = r.b
        /\ slab_last' = [op |-> "Insert", side |-> order.side, price |-> order.price,
                         inserted |-> r.inserted]
        /\ UNCHANGED <<treeVars, lobVars>>

SlabRemove(order_uid) ==
    /\ slab' = Slab_remove(slab, order_uid)
    /\ slab_last' = [op |-> "Remove", side |-> "Bids", price |-> 0, inserted |-> FALSE]
    /\ UNCHANGED <<treeVars, lobVars>>

SlabUpdate(order_uid, new_size) ==
    /\ slab' = Slab_update(slab, order_uid, new_size)
    /\ slab_last' = [op |-> "Update", side |-> "Bids", price |-> 0, inserted |-> FALSE]
    /\ UNCHANGED <<treeVars, lobVars>>

SlabNext ==
    \/ \E order \in SlabOrders : SlabInsert(order)
    \/ \E order_uid \in Uids : SlabRemove(order_uid)
    \/ \E order_uid \in Uids, new_size \in SlabUpdateSizes : SlabUpdate(order_uid, new_size)

SlabSpec == Init /\ [][SlabNext]_vars

\* ------------------------------------------------------------------------
\* The same book with all traffic going through process
\* ------------------------------------------------------------------------
SlabProcPrices == {4, 8}
SlabProcSizes == {0, 1, 2}
SlabProcOrders ==
    [uid : Uids, side : Sides, price : SlabProcPrices, size : SlabProcSizes,
     timestamp : OrderTimestamps]

SlabProcess(order, action) ==
    /\ slab.items_processed < MaxProcessed
    /\ slab' = Slab_process(slab, order, action)
    /\ slab_last' = [op |-> action,
                     side |-> IF action = "Insert" THEN order.side ELSE "Bids",
                     price |-> IF action = "Insert" THEN order.price ELSE 0,
                     inserted |-> action = "Insert" /\ Slab_insert(slab, order).inserted,
                     timestamp |-> order.timestamp]
    /\ UNCHANGED <<treeVars, lobVars>>

SlabProcNext ==
    \/ \E order \in SlabProcOrders : SlabProcess(order, "Insert")
    \/ \E order \in SlabProcOrders : SlabProcess(order, "Remove")
    \/ \E order \in SlabProcOrders : SlabProcess(order, "Update")

SlabProcSpec == Init /\ [][SlabProcNext]_vars

\* ------------------------------------------------------------------------
\* A run works on one book, the one of orderbook_py.rs or the one of
\* orderbook_btree_slab.rs, and sends all traffic through process
\* ------------------------------------------------------------------------
SidesSizes == {0, 1}
SidesOrders ==
    [uid : Uids, side : Sides, price : SlabProcPrices, size : SidesSizes,
     timestamp : OrderTimestamps]

SidesSlabNext ==
    \/ \E order \in SidesOrders : SlabProcess(order, "Insert")
    \/ \E order \in SidesOrders : SlabProcess(order, "Remove")
    \/ \E order \in SidesOrders : SlabProcess(order, "Update")

SidesNext ==
    \/ slab.items_processed = 0 /\ ProcNext
    \/ lob.items_processed = 0 /\ SidesSlabNext

SidesSpec == Init /\ [][SidesNext]_vars

\* ------------------------------------------------------------------------
\* Shape of a tree, read off the links alone
\* ------------------------------------------------------------------------
RECURSIVE Closure(_, _)
Closure(T, S) ==
    LET S2 == S \cup (({T.left[n] : n \in S} \cup {T.right[n] : n \in S}) \ {Nil})
    IN  IF S2 = S THEN S ELSE Closure(T, S2)

Under(T, l) == IF l = Nil THEN {} ELSE Closure(T, {l})

Nodes(T) == Under(T, T.root)

RECURSIVE Depth(_, _, _)
Depth(T, l, fuel) ==
    IF l = Nil \/ fuel = 0 THEN 0
    ELSE LET a == Depth(T, T.left[l], fuel - 1)
             b == Depth(T, T.right[l], fuel - 1)
         IN  1 + (IF a > b THEN a ELSE b)

Ht(T, l) == Depth(T, l, MaxKey)

RECURSIVE InOrder(_, _, _)
InOrder(T, l, fuel) ==
    IF l = Nil \/ fuel = 0 THEN <<>>
    ELSE InOrder(T, T.left[l], fuel - 1) \o <<l>> \o InOrder(T, T.right[l], fuel - 1)

Keys_in_order(T) == InOrder(T, T.root, MaxKey)

\* The tree of lib.rs driven directly.  A tree whose parent pointers no longer
\* match its child links is not driven further: the calls would follow those
\* pointers.
ParentsMatch(T) ==
    /\ T.root # Nil => T.parent[T.root] = Nil
    /\ \A n \in Nodes(T) \ {T.root} :
          /\ T.parent[n] # Nil
          /\ (T.left[T.parent[n]] = n) # (T.right[T.parent[n]] = n)

LibInserted(key, T2) ==
    /\ UNCHANGED <<lobVars, slabVars>>
    /\ tree' = T2
    /\ tree_last' = [op |-> "insert",
                     arm |-> IF find_link_location(tree, key).found THEN "Found" ELSE "New",
                     rotated |-> /\ ~find_link_location(tree, key).found
                                 /\ [T2 EXCEPT !.len = 0] #
                                    [link_new_node(tree, find_link_location(tree, key),
                                                   key, LibValue) EXCEPT !.len = 0],
                     map |-> [tree_last.map EXCEPT ![key] = IF @ = <<>> THEN <<LibValue>> ELSE @],
                     freed |-> <<>>]

LibInsert(key) ==
    /\ ParentsMatch(tree)
    /\ LibInserted(key, Lib_insert(tree, key, LibValue))

LibRemoved(key, r) ==
    /\ UNCHANGED <<lobVars, slabVars>>
    /\ tree' = r.t
    /\ tree_last' = [op |-> "remove", arm |-> r.children, rotated |-> r.rotated,
                     map |-> [tree_last.map EXCEPT ![key] = <<>>], freed |-> <<>>]

LibRemove(key) ==
    /\ ParentsMatch(tree)
    /\ LibRemoved(key, Lib_remove(tree, key))

LibNext ==
    \/ \E key \in Keys : LibInsert(key)
    \/ \E key \in Keys : LibRemove(key)

LibSpec == TreeInit /\ [][LibNext]_vars

\* ------------------------------------------------------------------------
\* Keys without an order. K is PartialOrd only: for an f64 key,
\* partial_cmp answers None when either operand is NaN. In this
\* specification the last key stands for a NaN price.
NaN == MaxKey

partial_cmp(a, b) ==
    IF a = NaN \/ b = NaN THEN "None"
    ELSE IF a > b THEN "Greater"
    ELSE IF a < b THEN "Less"
    ELSE "Equal"

\* whether the walk of find_link_location reaches its panic! arm
RECURSIVE find_walk_panics(_, _, _)
find_walk_panics(T, key, current) ==
    IF Deref(T, current) = Nil THEN FALSE
    ELSE CASE partial_cmp(key, Deref(T, current)) = "Greater" ->
                find_walk_panics(T, key, RightSlot(Deref(T, current)))
           [] partial_cmp(key, Deref(T, current)) = "Less" ->
                find_walk_panics(T, key, LeftSlot(Deref(T, current)))
           [] partial_cmp(key, Deref(T, current)) = "Equal" -> FALSE
           [] partial_cmp(key, Deref(T, current)) = "None" -> TRUE

find_link_location_panics(T, key) == find_walk_panics(T, key, RootSlot)

\* the panic ends the run; nothing was written before it
Aborted ==
    /\ tree' = tree
    /\ tree_last' = [tree_last EXCEPT !.op = "panic"]
    /\ UNCHANGED <<lobVars, slabVars>>

NanInsert(key) ==
    /\ tree_last.op # "panic"
    /\ IF find_link_location_panics(tree, key) THEN Aborted ELSE TreeInsert(key)

NanRemove(key) ==
    /\ tree_last.op # "panic"
    /\ IF find_link_location_panics(tree, key) THEN Aborted ELSE TreeRemove(key)

NanNext ==
    \/ \E key \in Keys : NanInsert(key)
    \/ \E key \in Keys : NanRemove(key)

NanSpec == TreeInit /\ [][NanNext]_vars

\* ------------------------------------------------------------------------
\* is_balanced as a function of the tree it is given: every search tree the
\* links of at most MaxShape nodes can form
ShapeKeys == 1..MaxShape

\* a node linked where its key belongs, the tree left as it then is
grow(T, key) ==
    [link_new_node(T, find_link_location(T, key), key, DefaultOrder) EXCEPT !.len = @ + 1]

RECURSIVE Shapes(_)
Shapes(n) ==
    IF n = 0 THEN {AVLTree_new}
    ELSE Shapes(n - 1) \cup
         UNION {{grow(T, key) : key \in ShapeKeys \ Nodes(T)} : T \in Shapes(n - 1)}

ShapeInit ==
    /\ tree \in Shapes(MaxShape)
    /\ tree_last = [op |-> "new", arm |-> "None", rotated |-> FALSE,
                    map |-> [k \in Keys |-> <<>>], freed |-> <<>>]
    /\ BookInit

\* the answer of is_balanced, kept in arm
ShapeIsBalanced ==
    /\ tree_last.op = "new"
    /\ tree' = tree
    /\ tree_last' = [tree_last EXCEPT
                        !.op = "is_balanced",
                        !.arm = IF AVLTree_is_balanced(tree).panic THEN "panic"
                                ELSE IF AVLTree_is_balanced(tree).balanced THEN "true"
                                ELSE "false"]
    /\ UNCHANGED <<lobVars, slabVars>>

ShapeNext == ShapeIsBalanced

ShapeSpec == ShapeInit /\ [][ShapeNext]_vars

StrictlyIncreasing(s) == \A i \in 1..(Len(s) - 1) : s[i] < s[i + 1]

\* C1: after any sequence of insert and remove calls every node of the tree,
\* not only the root, has subtree heights that differ by at most one.
C1_EveryNodeBalanced ==
    \A n \in Nodes(tree) :
        Ht(tree, tree.right[n]) - Ht(tree, tree.left[n]) \in -1..1

\* a removal of a node with two children whose successor lay deeper, followed
\* by a rotation on the way up
C1_Witness ==
    /\ tree_last.op = "remove"
    /\ tree_last.arm = "BothDeep"
    /\ tree_last.rotated
    /\ tree.len >= 4

\* C2: after any sequence of insert and remove calls the tree is a binary
\* search tree with unique keys: left subtree keys are smaller, right subtree
\* keys are larger, and the in-order key sequence is strictly increasing.
C2_BinarySearchTree ==
    /\ \A n \in Nodes(tree) :
          /\ \A k \in Under(tree, tree.left[n]) : k < n
          /\ \A k \in Under(tree, tree.right[n]) : k > n
    /\ StrictlyIncreasing(Keys_in_order(tree))
    /\ Len(Keys_in_order(tree)) = Cardinality(Nodes(tree))

\* a removal of a node with two children whose successor was its right child,
\* followed by a rotation
C2_Witness ==
    /\ tree_last.op = "remove"
    /\ tree_last.arm = "BothDirect"
    /\ tree_last.rotated
    /\ Len(Keys_in_order(tree)) >= 4

\* C3: after any sequence of insert and remove calls each non-root node has a
\* non-empty parent pointer P such that exactly one of left(P), right(P) is
\* the node, and the root has an empty parent pointer.
C3_ParentConsistency ==
    /\ tree.root # Nil => tree.parent[tree.root] = Nil
    /\ \A n \in Nodes(tree) \ {tree.root} :
          /\ tree.parent[n] # Nil
          /\ (tree.left[tree.parent[n]] = n) # (tree.right[tree.parent[n]] = n)

\* an insert that rotated, in a tree deep enough to hold a grandchild
C3_Witness ==
    /\ tree_last.op = "insert"
    /\ tree_last.rotated
    /\ \E n \in Nodes(tree) : tree.parent[n] # Nil /\ tree.parent[tree.parent[n]] # Nil

\* ------------------------------------------------------------------------
\* The book, read off its trees and index
\* ------------------------------------------------------------------------
Levels(B, side) == Nodes(B[TreeField(side)])

StackAt(B, side, price) == B[TreeField(side)].value[price]

\* every (side, price, position) at which an order sits in a stack of a tree node
Resting(B) ==
    {<<side, price, i>> : side \in Sides, price \in Keys, i \in 1..MaxOrders} \cap
    {x \in Sides \X Keys \X (1..MaxOrders) :
        x[2] \in Levels(B, x[1]) /\ x[3] <= Len(StackAt(B, x[1], x[2]))}

OrderOf(B, x) == StackAt(B, x[1], x[2])[x[3]]

IndexSize(B) == Cardinality({u \in Uids : B.order_map[u] # NoEntry})

\* C4: as long as no Insert carried a uid that was resting, the order index,
\* the stacks and the length agree: |order_map| = len = number of orders in
\* the stacks, and every stacked order is indexed under its stack's side and price.
C4_IndexStacksLenAgree ==
    ~lob_last.repeated =>
        /\ IndexSize(lob) = lob.len
        /\ Cardinality(Resting(lob)) = lob.len
        /\ \A x \in Resting(lob) :
              lob.order_map[OrderOf(lob, x).uid] = <<x[1], x[2]>>

\* one of two resting orders has been removed, no uid was ever inserted twice
C4_Witness ==
    /\ ~lob_last.repeated
    /\ lob_last.op = "Remove" /\ lob_last.known
    /\ lob.len = 1
    /\ Cardinality(Resting(lob)) = 1

SetMin(S) == CHOOSE x \in S : \A y \in S : x <= y
SetMax(S) == CHOOSE x \in S : \A y \in S : x >= y

BookUnchanged ==
    /\ lob'.bids = lob.bids
    /\ lob'.asks = lob.asks
    /\ lob'.order_map = lob.order_map
    /\ lob'.len = lob.len

\* C5: a price-level node exists exactly where an order rests: no tree node
\* holds an empty stack, no stack outlives its node, and node_count() is the
\* number of (side, price) levels that hold orders.
C5_NoEmptyLevels ==
    /\ \A side \in Sides :
          /\ \A price \in Levels(lob, side) : StackAt(lob, side, price) # <<>>
          /\ \A price \in Keys \ Levels(lob, side) : StackAt(lob, side, price) = <<>>
    /\ node_count(lob) = Cardinality(Levels(lob, "Bids")) + Cardinality(Levels(lob, "Asks"))

\* the last order of a level was removed while other levels stay
C5_Witness ==
    /\ lob_last.op = "Remove"
    /\ lob_last.delta = -1
    /\ node_count(lob) >= 1

\* C6: best_ask() is the lowest resting ask price, None exactly on an empty asks tree.
C6_BestAskIsLowest ==
    best_ask(lob) = IF Levels(lob, "Asks") = {} THEN Nil ELSE SetMin(Levels(lob, "Asks"))

\* C7: best_bid() is the highest resting bid price, the key of the in-order
\* last node of the bids tree, and None exactly on an empty bids tree.
C7_BestBidIsHighest ==
    /\ best_bid(lob) = IF Levels(lob, "Bids") = {} THEN Nil ELSE SetMax(Levels(lob, "Bids"))
    /\ lob.bids.root # Nil =>
          best_bid(lob) = Keys_in_order(lob.bids)[Len(Keys_in_order(lob.bids))]

\* two bid levels, the best one not at the root of the tree
C7_Witness ==
    /\ Cardinality(Levels(lob, "Bids")) >= 2
    /\ best_bid(lob) # lob.bids.root
    /\ best_bid(lob) = SetMax(Levels(lob, "Bids"))

\* C8: an Insert whose uid is already indexed changes nothing in the book.
C8_RepeatedInsertIsNoOp ==
    [][(lob_last'.op = "Insert" /\ lob_last'.known) => BookUnchanged]_vars

\* C9: Remove or Update of a uid that is not indexed leaves trees, stacks,
\* index and len unchanged; issued through process it counts as one item.
C9_UnknownUidIsNoOp ==
    [][(lob_last'.op \in {"Remove", "Update"} /\ ~lob_last'.known) =>
          /\ BookUnchanged
          /\ lob'.items_processed = lob.items_processed + 1]_vars

\* an Update of an unknown uid went through process on a non-empty book
C9_Witness ==
    /\ lob_last.op = "Update"
    /\ ~lob_last.known
    /\ lob.len >= 1
    /\ lob.items_processed >= 2

\* C10: insert rejects a Bid exactly when the bids tree is non-empty and the
\* price is below best_bid / outlier_factor, best_bid being the highest bid
\* resting when insert is called; an Ask exactly when the asks tree is
\* non-empty and the price is above best_ask * outlier_factor.
C10_OutlierIffBeyondBest ==
    [][slab_last'.op = "Insert" =>
          (~slab_last'.inserted <=>
              IF slab_last'.side = "Bids"
              THEN /\ slab.bids.keys # {}
                   /\ slab_last'.price * outlier_factor < SetMax(slab.bids.keys)
              ELSE /\ slab.asks.keys # {}
                   /\ slab_last'.price > SetMin(slab.asks.keys) * outlier_factor)]_vars

\* uids whose index entry the step removes: the effective removes of the step
SlabIndexRemoved ==
    {u \in Uids : slab.order_map[u] # NoEntry /\ slab'.order_map[u] = NoEntry}

\* C11: a rejected insert returns false, adds exactly 1 to outliers and leaves
\* trees, index and len alone; an accepted insert returns true, adds exactly 1
\* to len and leaves outliers alone; remove and update change len only by the
\* effective removes, so len is accepted inserts minus effective removes.
C11_InsertFrame ==
    [][/\ (slab_last'.op = "Insert" /\ ~slab_last'.inserted) =>
             /\ slab'.outliers = slab.outliers + 1
             /\ slab'.bids = slab.bids /\ slab'.asks = slab.asks
             /\ slab'.order_map = slab.order_map
             /\ slab'.len = slab.len
       /\ (slab_last'.op = "Insert" /\ slab_last'.inserted) =>
             /\ slab'.len = slab.len + 1
             /\ slab'.outliers = slab.outliers
       /\ slab_last'.op \in {"Remove", "Update"} =>
             /\ slab'.len = slab.len - Cardinality(SlabIndexRemoved)
             /\ slab'.outliers = slab.outliers]_vars

\* an insert was rejected while one order rests
C11_Witness ==
    /\ slab_last.op = "Insert"
    /\ ~slab_last.inserted
    /\ slab.outliers = 1
    /\ slab.len = 1
    /\ Cardinality(slab.bids.keys \cup slab.asks.keys) = 1

\* uids of the orders that sit in some stack of the book
SlabRestingUids(B) ==
    {B[f].value[p][i].uid : <<f, p, i>> \in
        {x \in {"bids", "asks"} \X SlabPrices \X (1..MaxOrders) :
            x[3] <= Len(B[x[1]].value[x[2]])}}

\* C12: for an order whose uid is not resting, insert followed by remove of
\* that uid gives back the price levels, the stacks, the index, len and both
\* cutoffs of the book before the insert.
C12_InsertRemoveRoundTrip ==
    \A o \in SlabOrders :
        (o.uid \notin SlabRestingUids(slab) /\ slab.order_map[o.uid] = NoEntry) =>
            LET after == Slab_remove(Slab_insert(slab, o).b, o.uid)
            IN  /\ after.bids = slab.bids
                /\ after.asks = slab.asks
                /\ after.order_map = slab.order_map
                /\ after.len = slab.len
                /\ after.bid_cutoff = slab.bid_cutoff
                /\ after.ask_cutoff = slab.ask_cutoff

\* C13: update(uid, 0) gives exactly the book that remove(uid) gives; when uid
\* is resting, has(uid) is false afterwards and the level is gone if the order
\* was the only one at its price.
C13_UpdateToZeroIsRemove ==
    \A order_uid \in Uids :
        /\ LimitOrderbook_update(lob, order_uid, 0) = LimitOrderbook_remove(lob, order_uid)
        /\ has(lob, order_uid) =>
              /\ ~has(LimitOrderbook_update(lob, order_uid, 0), order_uid)
              /\ Len(StackAt(lob, get_order(lob, order_uid).side,
                             get_order(lob, order_uid).node)) = 1 =>
                     get_order(lob, order_uid).node \notin
                         Levels(LimitOrderbook_update(lob, order_uid, 0),
                                get_order(lob, order_uid).side)

\* update(uid, 0) of a resting order has taken its level out of a book of two orders
C13_Witness ==
    /\ lob_last.op = "Update" /\ lob_last.known /\ lob_last.delta = -1
    /\ lob.len = 1

\* C14: remove is idempotent: in every state and for every uid, remove(uid)
\* twice gives the book that one remove(uid) gives, and a remove that directly
\* follows an effective remove of the same uid changes nothing (len included).
C14_RemoveIdempotent ==
    /\ [](\A order_uid \in Uids :
              LimitOrderbook_remove(LimitOrderbook_remove(lob, order_uid), order_uid) =
                  LimitOrderbook_remove(lob, order_uid))
    /\ [][lob_last'.again => lob' = lob]_vars

\* a resting order's uid has been removed a second time; another order rests
C14_Witness ==
    /\ lob_last.again /\ ~lob_last.known
    /\ lob.len = 1 /\ Cardinality(Resting(lob)) = 1

\* the stacks of `after` are those of `before`, except that the order at
\* (side, price, index) has the size new_size
OnlySizeChanged(before, after, side, price, index, new_size) ==
    \A f \in {"bids", "asks"}, k \in Keys :
        /\ Len(after[f].value[k]) = Len(before[f].value[k])
        /\ \A i \in 1..Len(before[f].value[k]) :
              after[f].value[k][i] =
                  IF f = TreeField(side) /\ k = price /\ i = index
                  THEN [before[f].value[k][i] EXCEPT !.size = new_size]
                  ELSE before[f].value[k][i]

\* the nodes and links of both trees, the index and len are the same in both books
SameShape(before, after) ==
    /\ \A f \in {"bids", "asks"} :
          \A fld \in {"root", "len", "left", "right", "parent"} :
              after[f][fld] = before[f][fld]
    /\ after.order_map = before.order_map
    /\ after.len = before.len

\* C15: update(uid, new_size) with new_size > 0 on a resting order changes the
\* size of that order and nothing else: price, side and stack position of the
\* order, every other order, the nodes of both trees, the index and len stay,
\* and get_order(uid) has the size new_size afterwards.
C15_UpdateChangesOnlySize ==
    \A order_uid \in Uids, new_size \in UpdateSizes \ {0} :
        has(lob, order_uid) =>
            /\ SameShape(lob, LimitOrderbook_update(lob, order_uid, new_size))
            /\ OnlySizeChanged(lob, LimitOrderbook_update(lob, order_uid, new_size),
                               get_order(lob, order_uid).side,
                               get_order(lob, order_uid).node,
                               get_order(lob, order_uid).index, new_size)
            /\ get_order(LimitOrderbook_update(lob, order_uid, new_size), order_uid) =
                   get_order(lob, order_uid)
            /\ StackAt(LimitOrderbook_update(lob, order_uid, new_size),
                       get_order(lob, order_uid).side,
                       get_order(lob, order_uid).node)[get_order(lob, order_uid).index].size
                   = new_size

\* the first of two orders at one price has been updated to a new size
C15_Witness ==
    /\ lob_last.op = "Update" /\ lob_last.known
    /\ \E side \in Sides, price \in Prices :
          /\ price \in Levels(lob, side)
          /\ Len(StackAt(lob, side, price)) = 2
          /\ StackAt(lob, side, price)[1].uid = lob_last.uid
          /\ StackAt(lob, side, price)[1].size \in UpdateSizes \ {0}
          /\ StackAt(lob, side, price)[2].uid # lob_last.uid
          /\ StackAt(lob, side, price)[2].size \in InsertSizes

\* the orders queued at a price of a side, in queue order; none without the level
Queue(B, side, price) ==
    IF price \in Levels(B, side) THEN StackAt(B, side, price) ELSE <<>>

\* `new` is `old` with the order at one position taken out
OneTakenOut(old, new) ==
    /\ Len(new) = Len(old) - 1
    /\ \E index \in 1..Len(old) :
          \A i \in 1..Len(new) : new[i] = IF i < index THEN old[i] ELSE old[i + 1]

\* C16: every stack is first in, first out: insert puts the order behind all
\* orders already queued at its price (also at a price that has a level), and
\* a remove or update takes at most one order out of a queue, or resizes
\* orders in place, and leaves the remaining orders in their relative order.
C16_StacksAreFifo ==
    [][\A side \in Sides, price \in Prices :
          /\ lob_last'.op = "Insert" =>
                IF lob'.order_map[lob_last'.uid] # <<side, price>>
                THEN Queue(lob', side, price) = Queue(lob, side, price)
                ELSE /\ Len(Queue(lob', side, price)) = Len(Queue(lob, side, price)) + 1
                     /\ SubSeq(Queue(lob', side, price), 1, Len(Queue(lob, side, price)))
                            = Queue(lob, side, price)
                     /\ Queue(lob', side, price)[Len(Queue(lob', side, price))].uid
                            = lob_last'.uid
          /\ lob_last'.op \in {"Remove", "Update"} =>
                \/ OneTakenOut(Queue(lob, side, price), Queue(lob', side, price))
                \/ /\ Len(Queue(lob', side, price)) = Len(Queue(lob, side, price))
                   /\ \A i \in 1..Len(Queue(lob, side, price)) :
                         Queue(lob', side, price)[i] =
                             [Queue(lob, side, price)[i] EXCEPT
                                 !.size = Queue(lob', side, price)[i].size]]_vars

\* one of three orders queued at one price has been removed; the two other
\* senders' orders are still queued there
C16_Witness ==
    /\ lob_last.op = "Remove" /\ lob_last.known /\ lob_last.delta = 0
    /\ lob.len = 2
    /\ \E price \in Prices :
          /\ Len(Queue(lob, "Bids", price)) = 2
          /\ Queue(lob, "Bids", price)[1].uid # lob_last.uid
          /\ Queue(lob, "Bids", price)[2].uid # lob_last.uid
          /\ Queue(lob, "Bids", price)[1].uid # Queue(lob, "Bids", price)[2].uid

\* C17: every process call adds exactly 1 to items_processed, whatever the
\* call did; outliers never decreases; and with all traffic through process
\* outliers never exceeds items_processed.
C17_CountersMonotone ==
    [][/\ slab'.items_processed = slab.items_processed + 1
       /\ slab'.outliers >= slab.outliers
       /\ slab'.outliers <= slab'.items_processed]_vars

\* an accepted insert, a rejected insert and a remove have been processed
C17_Witness ==
    /\ slab.items_processed = 3
    /\ slab.outliers = 1
    /\ slab.len = 0
    /\ slab_last.op = "Remove"

\* C18: after every process call, timestamp() is the timestamp of the order
\* of that call.
C18_TimestampIsLastOrder ==
    slab_last.op # "new" => Slab_timestamp(slab) = slab_last.timestamp

\* sum of the sizes of the orders at the positions P of a stack
RECURSIVE SizeSum(_, _)
SizeSum(stack, P) ==
    IF P = {} THEN 0
    ELSE LET i == CHOOSE x \in P : TRUE
         IN  stack[i].size + SizeSum(stack, P \ {i})

\* sum of price * aggregate size over the first n tuples
RECURSIVE NotionalSum(_, _)
NotionalSum(lv, n) ==
    IF n = 0 THEN 0 ELSE lv[n][1] * lv[n][2] + NotionalSum(lv, n - 1)

\* C19: levels(side) has one tuple per price level of the side, from the best
\* price outward (bids descending, asks ascending); the second component is
\* the sum of the sizes of the orders at the price, the third the running sum
\* of price * aggregate size up to and including the level; an empty side
\* gives the empty list.
C19_LevelsFromBestOutward ==
    \A side \in Sides :
        LET lv == Slab_levels(slab, side)
            T == slab[TreeField(side)]
        IN  /\ Len(lv) = Cardinality(T.keys)
            /\ {lv[i][1] : i \in 1..Len(lv)} = T.keys
            /\ \A i \in 1..(Len(lv) - 1) :
                  IF side = "Bids" THEN lv[i][1] > lv[i + 1][1] ELSE lv[i][1] < lv[i + 1][1]
            /\ \A i \in 1..Len(lv) :
                  /\ lv[i][2] = SizeSum(T.value[lv[i][1]], 1..Len(T.value[lv[i][1]]))
                  /\ lv[i][3] = NotionalSum(lv, i)
            /\ T.keys = {} => lv = <<>>

\* bids of sizes 1 and 2 at 8 and a bid of size 1 at 4: two levels, best first
C19_Witness ==
    /\ Slab_levels(slab, "Bids") = <<<<8, 3, 24>>, <<4, 1, 28>>>>
    /\ Len(slab.bids.value[8]) = 2

\* the orders next() hands out until it returns None or panics, at most
\* `fuel` of them: ended tells that None was returned
RECURSIVE Drain(_, _, _, _)
DrainStep(B, r, acc, fuel) ==
    IF r.panic THEN [items |-> acc, ended |-> FALSE, panic |-> TRUE]
    ELSE IF ~r.some THEN [items |-> acc, ended |-> TRUE, panic |-> FALSE]
    ELSE IF fuel = 0 THEN [items |-> Append(acc, r.item), ended |-> FALSE, panic |-> FALSE]
    ELSE Drain(B, r.it, Append(acc, r.item), fuel - 1)

Drain(B, it, acc, fuel) == DrainStep(B, LimitOrderbook_Iter_next(B, it), acc, fuel)

\* the stacks of the nodes `nodes` of a tree, one after the other
RECURSIVE StacksOf(_, _, _)
StacksOf(T, nodes, i) ==
    IF i > Len(nodes) THEN <<>> ELSE T.value[nodes[i]] \o StacksOf(T, nodes, i + 1)

\* C20: in every reachable book, iter() hands out the orders of the bids tree
\* in in-order price order, then those of the asks tree, each stack front to
\* back, every resting order once and len orders in all, and then returns
\* None without a panic; this includes books with an empty bids or asks tree.
C20_IterYieldsEveryOrderOnce ==
    /\ ~Drain(lob, LimitOrderbook_iter(lob), <<>>, lob.len).panic
    /\ Drain(lob, LimitOrderbook_iter(lob), <<>>, lob.len).ended
    /\ Drain(lob, LimitOrderbook_iter(lob), <<>>, lob.len).items =
           StacksOf(lob.bids, Keys_in_order(lob.bids), 1) \o
           StacksOf(lob.asks, Keys_in_order(lob.asks), 1)
    /\ Len(Drain(lob, LimitOrderbook_iter(lob), <<>>, lob.len).items) = lob.len

\* C21: check() on a book with an empty bids tree or an empty asks tree
\* completes without a panic and reports nothing; is_balanced() is true for
\* an empty tree.
C21_CheckOnEmptySide ==
    /\ (lob.bids.root = Nil \/ lob.asks.root = Nil) =>
           /\ ~LimitOrderbook_check(lob).panic
           /\ LimitOrderbook_check(lob).error_msgs = {}
    /\ \A f \in {"bids", "asks"} :
           lob[f].root = Nil =>
               /\ ~AVLTree_is_balanced(lob[f]).panic
               /\ AVLTree_is_balanced(lob[f]).balanced

\* C22: no sequence of insert / remove / update calls, repeated uids, unknown
\* uids and size 0 included, leads to a state in which an unwrap of
\* get_order, get_order_mut or remove fails for some uid.
C22_NoUnwrapFails ==
    \A order_uid \in Uids :
        /\ ~get_order_panics(lob, order_uid)
        /\ ~remove_panics(lob, order_uid)

\* a uid was inserted twice, and then a uid that is not indexed was removed
C22_Witness ==
    /\ lob_last.repeated
    /\ lob_last.op = "Remove" /\ ~lob_last.known
    /\ lob.len = 1

\* C23: after any sequence of operations, re-inserts of a resting uid
\* included, every index entry uid -> (side, price) names a node that exists
\* at that price on that side and whose stack holds an order with that uid.
C23_IndexRefersToStackedOrder ==
    \A order_uid \in Uids :
        lob.order_map[order_uid] # NoEntry =>
            /\ lob.order_map[order_uid][2] \in Levels(lob, lob.order_map[order_uid][1])
            /\ \E i \in 1..Len(StackAt(lob, lob.order_map[order_uid][1],
                                        lob.order_map[order_uid][2])) :
                   StackAt(lob, lob.order_map[order_uid][1],
                           lob.order_map[order_uid][2])[i].uid = order_uid

\* a uid that was resting has just been inserted again
C23_Witness ==
    /\ lob_last.op = "Insert" /\ lob_last.known
    /\ lob.len = 2
    /\ lob.order_map[lob_last.uid] # NoEntry

\* B2 answers has as the book does, except for changed_uid, where it answers now
HasChangedOnly(B2, changed_uid, now) ==
    \A order_uid \in Uids :
        has(B2, order_uid) = IF order_uid = changed_uid THEN now ELSE has(lob, order_uid)

\* C24: per uid, has(uid) becomes true only by an insert of that uid and
\* false only by remove(uid) or update(uid, 0); an update with a positive
\* size and every call on another uid leave has(uid) as it is.
C24_UidLifecycle ==
    [](/\ \A order \in Orders :
            HasChangedOnly(LimitOrderbook_insert(lob, order), order.uid, TRUE)
       /\ \A other \in Uids :
            /\ HasChangedOnly(LimitOrderbook_remove(lob, other), other, FALSE)
            /\ HasChangedOnly(LimitOrderbook_update(lob, other, 0), other, FALSE)
            /\ \A new_size \in UpdateSizes \ {0} :
                   HasChangedOnly(LimitOrderbook_update(lob, other, new_size), other,
                                  has(lob, other)))

\* a resting order has been resized while the other uid is absent
C24_Witness ==
    /\ lob_last.op = "Update" /\ lob_last.known
    /\ has(lob, lob_last.uid)
    /\ lob.len = 1
    /\ \E other \in Uids : ~has(lob, other)

\* the keys inserted and not since removed, by the record of the calls
Present(last) == {k \in Keys : last.map[k] # <<>>}

\* C25: len equals the number of nodes reachable from the root and the number
\* of keys inserted and not since removed; an insert of a new key adds 1, an
\* insert of an existing key adds nothing, a remove of a present key takes 1
\* off; when every inserted key has been removed, len is 0 and the root empty.
C25_LenCountsNodes ==
    /\ [](/\ tree.len = Cardinality(Nodes(tree))
          /\ tree.len = Cardinality(Present(tree_last))
          /\ Present(tree_last) = {} => tree.root = Nil)
    /\ [][/\ tree_last'.op = "insert" =>
                tree'.len = tree.len + Cardinality(Present(tree_last') \ Present(tree_last))
          /\ tree_last'.op = "remove" =>
                tree'.len = tree.len - Cardinality(Present(tree_last) \ Present(tree_last'))]_vars

\* the last key of a tree that held keys has been removed
C25_Witness ==
    /\ tree_last.op = "remove" /\ tree_last.arm # "Absent"
    /\ Present(tree_last) = {}
    /\ tree.len = 0 /\ tree.root = Nil

\* C26: has(key) is true and get(key) is a stack exactly for the keys inserted
\* and not since removed, and that stack holds exactly the orders inserted
\* under the key since its node was created, in insertion order.
C26_OrderedMap ==
    \A key \in MapKeys :
        /\ AVLTree_has(tree, key) <=> tree_last.map[key] # <<>>
        /\ AVLTree_get(tree, key) # Nil <=> tree_last.map[key] # <<>>
        /\ AVLTree_get(tree, key) # Nil =>
              tree.value[AVLTree_get(tree, key)] = tree_last.map[key]

\* an insert pushed a second, different order onto a key's stack, while another
\* key is absent and a third present
C26_Witness ==
    \E key \in MapKeys, other \in MapKeys :
        /\ tree_last.op = "insert" /\ tree_last.arm = "Append"
        /\ AVLTree_get(tree, key) # Nil
        /\ tree.value[AVLTree_get(tree, key)] = <<OrderA, DefaultOrder>>
        /\ ~AVLTree_has(tree, other)
        /\ tree.len = 2

\* the keys a loop over the iterator sees: the items up to the first None
RECURSIVE Collect(_, _, _, _, _)
Collect(T, r, back, acc, fuel) ==
    IF r.item = Nil \/ fuel = 0 THEN acc
    ELSE Collect(T, IF back THEN Iter_next_back(T, r.it) ELSE Iter_next(T, r.it),
                 back, Append(acc, r.item), fuel - 1)

Forward(T) == Collect(T, Iter_next(T, AVLTree_iter(T)), FALSE, <<>>, MaxKey + 1)

Backward(T) == Collect(T, Iter_next_back(T, AVLTree_iter(T)), TRUE, <<>>, MaxKey + 1)

\* C27: iter() yields every key of the tree exactly once, in strictly
\* increasing order; iter().rev() yields every key exactly once, in strictly
\* decreasing order; both yield nothing for an empty tree.
C27_IterInKeyOrder ==
    /\ StrictlyIncreasing(Forward(tree))
    /\ StrictlyIncreasing(Rev(Backward(tree)))
    /\ {Forward(tree)[i] : i \in DOMAIN Forward(tree)} = Present(tree_last)
    /\ {Backward(tree)[i] : i \in DOMAIN Backward(tree)} = Present(tree_last)
    /\ tree.root = Nil => Forward(tree) = <<>> /\ Backward(tree) = <<>>

\* a tree of five keys or more, just after a removal that rebalanced it
C27_Witness ==
    /\ tree_last.op = "remove" /\ tree_last.rotated
    /\ Len(Forward(tree)) >= 5
    /\ Len(Backward(tree)) >= 5

\* C28: remove(key) for a key that is not in the tree, the empty tree
\* included, returns None and leaves the links, the stacks and len as they were.
C28_RemoveAbsentIsNoOp ==
    /\ [](\A key \in Keys \ Present(tree_last) :
            /\ AVLTree_remove(tree, key).removed = NoNode
            /\ AVLTree_remove(tree, key).t = tree)
    /\ [][(tree_last'.op = "remove" /\ Present(tree_last') = Present(tree_last))
            => tree' = tree /\ tree_last'.arm = "Absent"]_vars

\* a remove of an absent key has just returned, on a tree that holds keys with
\* appended orders
C28_Witness ==
    /\ tree_last.op = "remove" /\ tree_last.arm = "Absent"
    /\ tree.len >= 3
    /\ Appended(tree) > 0

\* C29: dropping a tree of N nodes ends: the loop removes the root N times,
\* every removal frees one node (each node of the tree once), and it leaves an
\* empty root and len = 0.
C29_DropFreesEveryNode ==
    [][tree_last'.op = "drop" =>
        /\ Len(tree_last'.freed) = Cardinality(Nodes(tree))
        /\ Len(tree_last'.freed) = tree.len
        /\ {tree_last'.freed[i] : i \in DOMAIN tree_last'.freed} = Nodes(tree)
        /\ tree'.root = Nil
        /\ tree'.len = 0]_vars

\* a tree of six nodes or more has been dropped
C29_Witness ==
    /\ tree_last.op = "drop"
    /\ Len(tree_last.freed) >= 6
    /\ tree.root = Nil

\* the smallest key of T greater than key
Successor(T, key) == SetMin({k \in Nodes(T) : k > key})

\* T2 is T with key's node replaced by its in-order successor
SuccessorTookPlace(T, T2, key, S) ==
    /\ S = descend(T, T.right[key], "left")
    \* the removed node's parent linkage
    /\ IF T.root = key
       THEN T2.root = S /\ T2.parent[S] = Nil
       ELSE /\ T.left[T.parent[key]] = key => T2.left[T.parent[key]] = S
            /\ T.right[T.parent[key]] = key => T2.right[T.parent[key]] = S
            /\ T2.parent[S] = T.parent[key]
    \* the removed node's left subtree
    /\ T2.left[S] = T.left[key]
    /\ T2.parent[T.left[key]] = S
    /\ Under(T2, T2.left[S]) = Under(T, T.left[key])
    /\ IF T.right[key] = S
       THEN \* the direct right child keeps its own right subtree
            /\ T2.right[S] = T.right[S]
            /\ Under(T2, T2.right[S]) = Under(T, T.right[S])
       ELSE \* its right child goes to its former parent's left slot, and it
            \* adopts the removed node's right subtree
            /\ T2.left[T.parent[S]] = T.right[S]
            /\ T.right[S] # Nil => T2.parent[T.right[S]] = T.parent[S]
            /\ T2.right[S] = T.right[key]
            /\ T2.parent[T.right[key]] = S
            /\ Under(T2, T2.right[S]) = Under(T, T.right[key]) \ {S}
    \* every other key stays, with its stack
    /\ Nodes(T2) = Nodes(T) \ {key}
    /\ \A k \in Nodes(T2) : T2.value[k] = T.value[k]

\* the tree as remove_by_location has relinked it, before it rebalances
Relinked(T, key) ==
    unlink(T, find_link_location(T, key).link_ptr, find_link_location(T, key).parent,
           get_parentage(T, key), "Both").t

\* C30: when remove deletes a node with two children, its in-order successor
\* (the leftmost node of its right subtree, the smallest key greater than the
\* removed key) takes its position: it gets the removed node's parent linkage
\* and left subtree, keeps its own right subtree if it was the direct right
\* child, otherwise hands its right child to its former parent's left slot and
\* adopts the removed node's right subtree; every other key stays in the tree.
C30_SuccessorTakesPlace ==
    /\ [](\A key \in Nodes(tree) :
            which_children_exist(tree, key) = "Both" =>
                /\ SuccessorTookPlace(tree, Relinked(tree, key), key, Successor(tree, key))
                /\ Nodes(AVLTree_remove(tree, key).t) = Nodes(tree) \ {key})
    /\ [][tree_last'.arm \in {"BothDirect", "BothDeep"} =>
            \E key \in Nodes(tree) :
                /\ which_children_exist(tree, key) = "Both"
                /\ Nodes(tree') = Nodes(tree) \ {key}
                /\ tree_last'.arm = "BothDirect" <=> tree.right[key] = Successor(tree, key)
                /\ ~tree_last'.rotated =>
                      SuccessorTookPlace(tree, tree', key, Successor(tree, key))]_vars

\* a node with two children whose successor lay below its right child has been
\* removed, and the tree needed no rotation afterwards
C30_Witness ==
    /\ tree_last.op = "remove"
    /\ tree_last.arm = "BothDeep"
    /\ ~tree_last.rotated
    /\ tree.len >= 5

\* the nodes balance is called on by balance_stack(T, current), in order
RECURSIVE Visits(_, _, _)
VisitsParent(T, current, visited) ==
    IF is_root(T, Deref(T, current)) THEN visited
    ELSE Visits(T, flip_link(T, T.parent[Deref(T, current)]), visited)

Visits(T, current, visited) ==
    IF Deref(T, current) = Nil THEN visited
    ELSE VisitsParent(balance(T, current), current, Append(visited, Deref(T, current)))

\* n and its ancestors
RECURSIVE PathUp(_, _, _)
PathUp(T, n, fuel) ==
    IF n = Nil \/ fuel = 0 THEN {} ELSE {n} \cup PathUp(T, T.parent[n], fuel - 1)

\* the tree with key's node taken out and not yet rebalanced
Unlinked(T, key) ==
    unlink(T, find_link_location(T, key).link_ptr, find_link_location(T, key).parent,
           get_parentage(T, key), which_children_exist(T, key))

\* the deepest node whose subtree the removal of key altered
DeepestAltered(T, key) ==
    IF which_children_exist(T, key) # "Both" THEN T.parent[key]
    ELSE IF T.right[key] = Successor(T, key) THEN Successor(T, key)
    ELSE T.parent[Successor(T, key)]

BalancedFrom(u, visited, start) ==
    /\ start = Nil => visited = <<>>
    /\ start # Nil =>
          /\ visited # <<>>
          /\ visited[1] = start
          /\ PathUp(u.t, start, MaxKey) \subseteq {visited[i] : i \in DOMAIN visited}
          /\ u.t.root \in {visited[i] : i \in DOMAIN visited}

RemovalBalances(T, key, u) ==
    BalancedFrom(u, Visits(u.t, balance_start(u, find_link_location(T, key).parent), <<>>),
                 DeepestAltered(T, key))

\* C31: after a removal the balance step is applied to every node on the path
\* from the deepest structurally altered node up to and including the root:
\* from the removed node's parent for a leaf or one-child removal, from the
\* successor when it was the direct right child, from the successor's former
\* parent when it was deeper; the tree is balanced afterwards, also when a
\* two-children root is removed and a rotation is needed.
C31_RebalanceFromDeepestAltered ==
    /\ [](\A key \in Nodes(tree) : RemovalBalances(tree, key, Unlinked(tree, key)))
    /\ [][(tree_last'.op = "remove" /\ tree_last'.arm # "Absent") =>
            \A n \in Nodes(tree') :
                Ht(tree', tree'.right[n]) - Ht(tree', tree'.left[n]) \in -1..1]_vars

\* a node with two children has been removed from a tree of seven, and the tree
\* was rotated on the way up
C31_Witness ==
    /\ tree_last.op = "remove"
    /\ tree_last.arm \in {"BothDirect", "BothDeep"}
    /\ tree_last.rotated
    /\ tree.len = 6

\* C32: in the tree of lib.rs, after every remove of a present key every node
\* is height-balanced and is_balanced() holds.
C32_LibBalancedAfterRemove ==
    (tree_last.op = "remove" /\ tree_last.arm # "Absent") =>
        /\ \A n \in Nodes(tree) :
              Ht(tree, tree.right[n]) - Ht(tree, tree.left[n]) \in -1..1
        /\ tree.root # Nil => is_balanced(tree)

\* C33: in the tree of lib.rs, after any sequence of insert and remove calls
\* every non-root node is the left or right child of the node its parent
\* pointer refers to (every rotation updates all parent pointers involved, the
\* inner grandchild's included).
C33_LibParentsFollowRotations ==
    \A n \in Nodes(tree) \ {tree.root} :
        /\ tree.parent[n] # Nil
        /\ tree.left[tree.parent[n]] = n \/ tree.right[tree.parent[n]] = n

\* C34: the node remove returns is fully detached in every removal case: its
\* parent, left and right links are all empty.
C34_RemovedNodeDetached ==
    \A key \in Nodes(tree) :
        /\ AVLTree_remove(tree, key).removed.parent = Nil
        /\ AVLTree_remove(tree, key).removed.left = Nil
        /\ AVLTree_remove(tree, key).removed.right = Nil

\* the iterator as the call that returned the first None left it
RECURSIVE Exhaust(_, _, _, _)
Exhaust(T, r, back, fuel) ==
    IF r.item = Nil \/ fuel = 0 THEN r.it
    ELSE Exhaust(T, IF back THEN Iter_next_back(T, r.it) ELSE Iter_next(T, r.it),
                 back, fuel - 1)

ExhaustedForward(T) == Exhaust(T, Iter_next(T, AVLTree_iter(T)), FALSE, MaxKey + 1)

ExhaustedBackward(T) == Exhaust(T, Iter_next_back(T, AVLTree_iter(T)), TRUE, MaxKey + 1)

\* C35: iter() on a tree of N nodes yields exactly N items, and once next()
\* or next_back() has returned None, the next call on the same iterator
\* returns None too.
C35_IterStaysExhausted ==
    /\ Len(Forward(tree)) = tree.len
    /\ Len(Backward(tree)) = tree.len
    /\ Iter_next(tree, ExhaustedForward(tree)).item = Nil
    /\ Iter_next_back(tree, ExhaustedBackward(tree)).item = Nil

\* the tree with one more order at the back of key's stack, all else as it was
Pushed(T, key, ord) == [T EXCEPT !.value[key] = Append(@, ord)]

\* C36: insert with a key that is already present only appends the order to
\* the back of that key's stack: root, every left, right and parent link, len
\* and every other key's stack stay as they were (no node, no rotation).
C36_InsertPresentOnlyAppends ==
    /\ [](\A key \in Present(tree_last) :
            /\ AVLTree_insert(tree, key, NoOrder) = Pushed(tree, key, DefaultOrder)
            /\ AVLTree_insert(tree, key, OrderA) = Pushed(tree, key, OrderA))
    /\ [][(tree_last'.op = "insert" /\ Present(tree_last') = Present(tree_last))
            => /\ tree_last'.arm = "Append"
               /\ \E key \in Present(tree_last) :
                    tree' = Pushed(tree, key, DefaultOrder)]_vars

\* an insert has just pushed a second order onto an inner node that has two
\* children, in a tree of five keys or more
C36_Witness ==
    /\ tree_last.op = "insert" /\ tree_last.arm = "Append"
    /\ tree.len >= 5
    /\ \E key \in Present(tree_last) :
        /\ tree.value[key] = <<DefaultOrder, DefaultOrder>>
        /\ tree.left[key] # Nil /\ tree.right[key] # Nil
        /\ tree.parent[key] # Nil
        /\ \A other \in Present(tree_last) \ {key} : Len(tree.value[other]) = 1

\* C37: an operation that has to compare incomparable keys aborts before it
\* changes the tree, and an incomparable key is never stored in a tree, not
\* even by an insert into an empty tree.
C37_IncomparableKeyNeverStored ==
    /\ NaN \notin Nodes(tree)
    /\ tree_last.op = "panic" => tree_last.map = [k \in Keys |-> tree.value[k]]

\* C38: for every binary tree shape up to the bound, is_balanced returns true
\* exactly when every node's right and left subtree heights differ by at most
\* one.
C38_IsBalancedAgreesWithAllNodes ==
    tree_last.op = "is_balanced" =>
        (tree_last.arm = "true" <=>
            \A n \in Nodes(tree) :
                Ht(tree, tree.right[n]) - Ht(tree, tree.left[n]) \in -1..1)

Other(side) == IF side = "Bids" THEN "Asks" ELSE "Bids"

\* what `side` shows of the book of orderbook_py.rs is in B2 as it is in B
SideKept(B, B2, side) ==
    IF side = "Asks"
    THEN B2.asks = B.asks /\ best_ask(B2) = best_ask(B)
    ELSE B2.bids = B.bids /\ best_bid(B2) = best_bid(B)

\* the tree and the cutoff of `side` are in B2 as they are in B
SlabSideKept(B, B2, side) ==
    IF side = "Asks"
    THEN B2.asks = B.asks /\ B2.ask_cutoff = B.ask_cutoff
    ELSE B2.bids = B.bids /\ B2.bid_cutoff = B.bid_cutoff

\* the book that has B's tree of `side` and is new otherwise
OnlySide(B, side) ==
    IF side = "Asks" THEN [Slab_new EXCEPT !.asks = B.asks]
    ELSE [Slab_new EXCEPT !.bids = B.bids]

\* the best price and the levels of a side are read from that side's tree alone
SlabSideReadsOwnTree(B) ==
    /\ Slab_best_ask(B) = Slab_best_ask(OnlySide(B, "Asks"))
    /\ Slab_best_bid(B) = Slab_best_bid(OnlySide(B, "Bids"))
    /\ \A side \in Sides : Slab_levels(B, side) = Slab_levels(OnlySide(B, side), side)

\* a call that names an order by its uid acts on the side the index holds for
\* the uid; with no entry it acts on neither
UidCallKept(B, B2, order_uid) ==
    IF B.order_map[order_uid] = NoEntry
    THEN SideKept(B, B2, "Bids") /\ SideKept(B, B2, "Asks")
    ELSE SideKept(B, B2, Other(B.order_map[order_uid][1]))

SlabUidCallKept(B, B2, order_uid) ==
    IF B.order_map[order_uid] = NoEntry
    THEN SlabSideKept(B, B2, "Bids") /\ SlabSideKept(B, B2, "Asks")
    ELSE SlabSideKept(B, B2, Other(B.order_map[order_uid][1]))

\* C39: every insert, update, remove or process call changes at most one of
\* the two trees: a call that acts on a Bid order leaves the asks tree and the
\* ask cutoff as they were, and with them the best ask and the ask levels,
\* which are read from the asks tree alone; a call that acts on an Ask order
\* leaves the bid side as it was; this holds in both books.
C39_SidesIndependent ==
    /\ slab.items_processed = 0 =>
        /\ \A order \in Orders :
            /\ SideKept(lob, LimitOrderbook_insert(lob, order), Other(order.side))
            /\ SideKept(lob, LimitOrderbook_process(lob, order, "Insert"), Other(order.side))
            /\ UidCallKept(lob, LimitOrderbook_process(lob, order, "Remove"), order.uid)
        /\ \A order_uid \in Uids :
            /\ UidCallKept(lob, LimitOrderbook_remove(lob, order_uid), order_uid)
            /\ \A new_size \in UpdateSizes :
                /\ UidCallKept(lob, LimitOrderbook_update(lob, order_uid, new_size),
                               order_uid)
                /\ UidCallKept(lob, LimitOrderbook_process(
                                        lob, [uid |-> order_uid, size |-> new_size],
                                        "Update"),
                               order_uid)
    /\ lob.items_processed = 0 =>
        /\ SlabSideReadsOwnTree(slab)
        /\ \A order \in SidesOrders :
            /\ SlabSideKept(slab, Slab_insert(slab, order).b, Other(order.side))
            /\ SlabSideKept(slab, Slab_process(slab, order, "Insert"), Other(order.side))
        /\ \A order_uid \in Uids :
            /\ SlabUidCallKept(slab, Slab_remove(slab, order_uid), order_uid)
            /\ SlabUidCallKept(slab, Slab_process(slab, [uid |-> order_uid], "Remove"),
                               order_uid)
            /\ \A new_size \in SidesSizes :
                /\ SlabUidCallKept(slab, Slab_update(slab, order_uid, new_size), order_uid)
                /\ SlabUidCallKept(slab, Slab_process(
                                             slab, [uid |-> order_uid, size |-> new_size],
                                             "Update"),
                                   order_uid)

\* a bid has just been inserted at a price at which an ask rests, in the book
\* with the cutoffs, whose ask side holds a second price
C39_Witness ==
    /\ slab_last.op = "Insert" /\ slab_last.inserted /\ slab_last.side = "Bids"
    /\ slab_last.price \in slab.asks.keys
    /\ slab_last.price \in slab.bids.keys
    /\ Cardinality(slab.asks.keys) = 2
====
